---------------------------- MODULE Spec2Model ----------------------------
(***************************************************************************)
(* Model of the metric-extraction and ratio-computation engine of          *)
(* src/src/financial_analysis.py (class FinancialAnalysis).                *)
(*                                                                         *)
(* Strings are sequences of one-character strings, so that equality,       *)
(* lower-casing and substring containment are computed, not assumed.       *)
(* Numbers are exact rationals <<n, d>> (d > 0, reduced); NaN is <<0, 0>>. *)
(***************************************************************************)
EXTENDS Integers, Sequences, FiniteSets, TLC

(* ------------------------------ bounds -------------------------------- *)

\* largest number of reporting periods (rows) of a table
MaxRows ==
    2
\* largest number of columns of a table in the helper-call specification
MaxCols ==
    2
\* number of analyze calls made on one analyzer
MaxCalls ==
    2

(* ------------------------------ strings ------------------------------- *)

UpperChars ==
    << "A", "B", "C", "D", "E", "F", "G", "H", "I", "J", "K", "L", "M",
       "N", "O", "P", "Q", "R", "S", "T", "U", "V", "W", "X", "Y", "Z" >>

LowerChars ==
    << "a", "b", "c", "d", "e", "f", "g", "h", "i", "j", "k", "l", "m",
       "n", "o", "p", "q", "r", "s", "t", "u", "v", "w", "x", "y", "z" >>

\* str.lower() on one character
LowerChar(c) ==
    IF \E i \in 1..26 : UpperChars[i] = c
    THEN LowerChars[CHOOSE i \in 1..26 : UpperChars[i] = c]
    ELSE c

\* str.lower()
Lower(s) ==
    [i \in 1..Len(s) |-> LowerChar(s[i])]

\* needle in hay (Python substring test)
Contains(hay, needle) ==
    \E i \in 0..(Len(hay) - Len(needle)) :
        SubSeq(hay, i + 1, i + Len(needle)) = needle

\* case-insensitive "column name contains synonym"
ContainsCI(col, syn) ==
    Contains(Lower(col), Lower(syn))

\* case-insensitive equality of a column name and a synonym
EqualCI(col, syn) ==
    Lower(col) = Lower(syn)

(* --------------------------- column names ----------------------------- *)

c_revenue ==
    << "r", "e", "v", "e", "n", "u", "e" >>
c_totalRevenue ==
    << "t", "o", "t", "a", "l", "R", "e", "v", "e", "n", "u", "e" >>
c_TotalRevenue ==
    << "T", "o", "t", "a", "l", "R", "e", "v", "e", "n", "u", "e" >>
c_REVENUE ==
    << "R", "E", "V", "E", "N", "U", "E" >>
c_RevenueUSD ==
    << "R", "e", "v", "e", "n", "u", "e", " ", "(", "U", "S", "D", " ",
       "m", "i", "l", "l", "i", "o", "n", "s", ")" >>
c_netIncome ==
    << "n", "e", "t", "I", "n", "c", "o", "m", "e" >>
c_netincome ==
    << "n", "e", "t", "i", "n", "c", "o", "m", "e" >>
c_totalAssets ==
    << "t", "o", "t", "a", "l", "A", "s", "s", "e", "t", "s" >>
c_totalEquity ==
    << "t", "o", "t", "a", "l", "E", "q", "u", "i", "t", "y" >>
c_totalStockholdersEquity ==
    << "t", "o", "t", "a", "l", "S", "t", "o", "c", "k", "h", "o", "l", "d",
       "e", "r", "s", "E", "q", "u", "i", "t", "y" >>
c_totalCurrentAssets ==
    << "t", "o", "t", "a", "l", "C", "u", "r", "r", "e", "n", "t",
       "A", "s", "s", "e", "t", "s" >>
c_totalCurrentLiabilities ==
    << "t", "o", "t", "a", "l", "C", "u", "r", "r", "e", "n", "t",
       "L", "i", "a", "b", "i", "l", "i", "t", "i", "e", "s" >>
c_totalLiabilities ==
    << "t", "o", "t", "a", "l", "L", "i", "a", "b", "i", "l", "i", "t", "i", "e", "s" >>

(* --------------------------- metric names ----------------------------- *)

m_Revenue ==
    << "R", "e", "v", "e", "n", "u", "e" >>
m_NetIncome ==
    << "N", "e", "t", " ", "I", "n", "c", "o", "m", "e" >>
m_TotalAssets ==
    << "T", "o", "t", "a", "l", " ", "A", "s", "s", "e", "t", "s" >>
m_TotalEquity ==
    << "T", "o", "t", "a", "l", " ", "E", "q", "u", "i", "t", "y" >>
m_TotalCurrentAssets ==
    << "T", "o", "t", "a", "l", " ", "C", "u", "r", "r", "e", "n", "t", " ",
       "A", "s", "s", "e", "t", "s" >>
m_TotalCurrentLiabilities ==
    << "T", "o", "t", "a", "l", " ", "C", "u", "r", "r", "e", "n", "t", " ",
       "L", "i", "a", "b", "i", "l", "i", "t", "i", "e", "s" >>
m_TotalLiabilities ==
    << "T", "o", "t", "a", "l", " ", "L", "i", "a", "b", "i", "l", "i", "t", "i", "e", "s" >>

\* the canonical metrics the analyzer asks for
Metrics ==
    { m_Revenue, m_NetIncome, m_TotalAssets, m_TotalEquity,
      m_TotalCurrentAssets, m_TotalCurrentLiabilities, m_TotalLiabilities }

\* metric_variations of _get_latest_value; an unknown metric falls back to
\* [metric.lower()]
LatestVariations(metric) ==
    CASE metric = m_Revenue -> << c_revenue, c_totalRevenue >>
      [] metric = m_NetIncome -> << c_netIncome, c_netIncome >>
      [] metric = m_TotalAssets -> << c_totalAssets >>
      [] metric = m_TotalEquity -> << c_totalEquity, c_totalStockholdersEquity >>
      [] metric = m_TotalCurrentAssets -> << c_totalCurrentAssets >>
      [] metric = m_TotalCurrentLiabilities -> << c_totalCurrentLiabilities >>
      [] metric = m_TotalLiabilities -> << c_totalLiabilities >>
      [] OTHER -> << Lower(metric) >>

\* metric_variations of _get_growth_rate
GrowthVariations(metric) ==
    CASE metric = m_Revenue -> << c_revenue, c_totalRevenue >>
      [] metric = m_NetIncome -> << c_netIncome >>
      [] metric = m_TotalAssets -> << c_totalAssets >>
      [] OTHER -> << Lower(metric) >>

\* metric_variations of get_trend_data
TrendVariations(metric) ==
    CASE metric = m_Revenue -> << c_revenue, c_totalRevenue >>
      [] metric = m_NetIncome -> << c_netIncome >>
      [] metric = m_TotalAssets -> << c_totalAssets >>
      [] metric = m_TotalEquity -> << c_totalEquity, c_totalStockholdersEquity >>
      [] OTHER -> << Lower(metric) >>

(* ------------------------------ numbers ------------------------------- *)

\* A float is modelled by the exact rational it stands for: [t |-> "num"]
\* with numerator n and denominator d > 0 in lowest terms; "nan" is
\* float('nan'); "raise" marks an exception propagating out of an expression.
Abs(x) ==
    IF x < 0 THEN -x ELSE x

RECURSIVE Gcd(_, _)
Gcd(a, b) ==
    IF b = 0 THEN a ELSE Gcd(b, a % b)

Num(n, d) ==
    LET g == Gcd(Abs(n), Abs(d))
        sg == IF d < 0 THEN -1 ELSE 1
    IN  [t |-> "num", n |-> sg * (n \div g), d |-> sg * (d \div g)]

NaN ==
    [t |-> "nan", n |-> 0, d |-> 0]

Raise ==
    [t |-> "raise", n |-> 0, d |-> 0]

Zero ==
    Num(0, 1)

IsNum(x) ==
    x.t = "num"

IsNaN(x) ==
    x.t = "nan"

\* a - b on floats (NaN propagates)
Sub(a, b) ==
    IF IsNum(a) /\ IsNum(b) THEN Num(a.n * b.d - b.n * a.d, a.d * b.d)
    ELSE IF a = Raise \/ b = Raise THEN Raise ELSE NaN

\* a / b on floats; b = 0 is ZeroDivisionError
Div(a, b) ==
    IF a = Raise \/ b = Raise THEN Raise
    ELSE IF IsNum(b) /\ b.n = 0 THEN Raise
    ELSE IF IsNum(a) /\ IsNum(b) THEN Num(a.n * b.d, a.d * b.n)
    ELSE NaN

\* a * 100
Times100(a) ==
    IF IsNum(a) THEN Num(a.n * 100, a.d) ELSE a

\* abs(a)
AbsNum(a) ==
    IF IsNum(a) THEN Num(Abs(a.n), a.d) ELSE a

\* round(x, 2): nearest multiple of 0.01, ties to the even hundredth;
\* round(nan, 2) is nan
Round2(x) ==
    IF ~IsNum(x) THEN x
    ELSE LET s == x.n * 100
             fl == s \div x.d
             rem == s % x.d
             h == IF 2 * rem < x.d THEN fl
                  ELSE IF 2 * rem > x.d THEN fl + 1
                  ELSE IF fl % 2 = 0 THEN fl ELSE fl + 1
         IN  Num(h, 100)

\* x is a multiple of 0.01
IsRounded2(x) ==
    IsNum(x) /\ (100 % x.d = 0)

(* ------------------------------- cells -------------------------------- *)

\* A cell of a table is a number or a text.
NumCell(v) ==
    [k |-> "num", v |-> v, s |-> << >>]

TextCell(s) ==
    [k |-> "text", v |-> 0, s |-> s]

Digits ==
    << "0", "1", "2", "3", "4", "5", "6", "7", "8", "9" >>

IsDigit(c) ==
    \E i \in 1..10 : Digits[i] = c

DigitValue(c) ==
    (CHOOSE i \in 1..10 : Digits[i] = c) - 1

RECURSIVE ParseDigits(_)
ParseDigits(s) ==
    IF s = << >> THEN 0
    ELSE 10 * ParseDigits(SubSeq(s, 1, Len(s) - 1)) + DigitValue(s[Len(s)])

RECURSIVE Pow10(_)
Pow10(k) ==
    IF k = 0 THEN 1 ELSE 10 * Pow10(k - 1)

\* pd.to_numeric(text, errors='coerce'): a decimal literal (digits with at
\* most one '.', an optional leading '-') parses; any other text of the
\* model is NaN
ParseText(s) ==
    LET body == IF s # << >> /\ s[1] = "-" THEN Tail(s) ELSE s
        dots == { i \in 1..Len(body) : body[i] = "." }
        digits == SelectSeq(body, IsDigit)
        frac == IF dots = {} THEN 0 ELSE Len(body) - (CHOOSE i \in dots : TRUE)
        sign == IF body = s THEN 1 ELSE -1
    IN  IF /\ Len(digits) >= 1
           /\ Cardinality(dots) <= 1
           /\ \A i \in 1..Len(body) : IsDigit(body[i]) \/ body[i] = "."
        THEN Num(sign * ParseDigits(digits), Pow10(frac))
        ELSE NaN

\* pd.to_numeric(cell, errors='coerce')
to_numeric(cell) ==
    IF cell.k = "num" THEN Num(cell.v, 1) ELSE ParseText(cell.s)

(* ------------------------------- tables ------------------------------- *)

\* the index of a table stored most-recent-first: periods nrows, ..., 1
RecentFirst(nrows) ==
    [i \in 1..nrows |-> nrows + 1 - i]

\* A DataFrame: its ordered column names, its number of rows, for each
\* column the cells from position 0 (row 1 of the sequence) downwards, and
\* its index (the period of each row).
Table(columns, nrows, data) ==
    [is_frame |-> TRUE, columns |-> columns, nrows |-> nrows, data |-> data,
     index |-> RecentFirst(nrows)]

\* the same table with another index
Reindexed(df, index) ==
    [df EXCEPT !.index = index]

\* an object that is no DataFrame (None): reading .columns raises
\* AttributeError
NotAFrame ==
    [is_frame |-> FALSE, columns |-> << >>, nrows |-> 0, data |-> << >>,
     index |-> << >>]

\* variation in df.columns
HasColumn(df, name) ==
    \E i \in 1..Len(df.columns) : df.columns[i] = name

\* col_name is None
NoColumn ==
    << >>

\* df[col].iloc[pos] (pos counted from 0)
CellAt(df, col, pos) ==
    df.data[col][pos + 1]

(* ------------------------------- state -------------------------------- *)

VARIABLES
    income_stmt,           \* self.income_stmt
    balance_sheet,         \* self.balance_sheet
    pc,                    \* position of the running analyze call
    symbol_is_str,         \* whether the symbol argument of the call is a str
    fault,                 \* where an unexpected exception is raised in the call
    profitability_ratios,  \* local of analyze
    liquidity_ratios,      \* local of analyze
    growth_rates,          \* local of analyze
    trend_data,            \* local of analyze
    charts,                \* number of chart files written to output_dir
    result,                \* value returned by the last completed analyze
    first,                 \* inputs and result of the first completed analyze
    calls,                 \* number of completed analyze calls
    helper,                \* the last direct call of a helper and its return value
    other,                 \* a second analysis: its analyzer, locals and position
    output_dir,            \* whether the directory Visualization.output_dir exists
    load,                  \* a call of load_from_ticker: its position and locals
    session,               \* st.session_state, widget values included
    page,                  \* what the last run of main() put on the page
    temp_upload            \* whether the file temp_upload.csv exists

\* the variables no step of an analysis on an existing output directory
\* touches
ui ==
    << session, page, temp_upload >>

outside ==
    << other, output_dir, load, ui >>

vars ==
    << income_stmt, balance_sheet, pc, symbol_is_str, fault,
       profitability_ratios, liquidity_ratios, growth_rates, trend_data,
       charts, result, first, calls, helper, outside >>

\* df = self.balance_sheet if is_balance_sheet else self.income_stmt
Frame(is_balance_sheet) ==
    IF is_balance_sheet THEN balance_sheet ELSE income_stmt

(* -------------------------- column resolution ------------------------- *)

\* mutant: a lookup that falls back to the first column of the table when
\* no variation names a column
FirstVariationOrFirstColumn(df, variations) ==
    IF \E i \in 1..Len(variations) : HasColumn(df, variations[i])
    THEN variations[CHOOSE i \in 1..Len(variations) :
                        /\ HasColumn(df, variations[i])
                        /\ \A j \in 1..(i - 1) : ~HasColumn(df, variations[j])]
    ELSE IF Len(df.columns) >= 1 THEN df.columns[1] ELSE NoColumn

\* first variation, in list order, that is a column of df; None otherwise
\*     for variation in variations:
\*         if variation in df.columns: col_name = variation; break
FirstVariationIn(df, variations) ==
    IF \E i \in 1..Len(variations) : HasColumn(df, variations[i])
    THEN variations[CHOOSE i \in 1..Len(variations) :
                        /\ HasColumn(df, variations[i])
                        /\ \A j \in 1..(i - 1) : ~HasColumn(df, variations[j])]
    ELSE NoColumn

\* mutant: the first column, in column order, that contains some variation
\* as a case-insensitive substring
ResolveLatestBySubstring(df, metric) ==
    LET vs == LatestVariations(metric)
        hit(c) == \E i \in 1..Len(vs) : ContainsCI(c, vs[i])
    IN  IF \E k \in 1..Len(df.columns) : hit(df.columns[k])
        THEN df.columns[CHOOSE k \in 1..Len(df.columns) :
                            /\ hit(df.columns[k])
                            /\ \A j \in 1..(k - 1) : ~hit(df.columns[j])]
        ELSE NoColumn

\* mutant: the first column, in column order, that equals some variation
ResolveLatestByColumnOrder(df, metric) ==
    LET vs == LatestVariations(metric)
        hit(c) == \E i \in 1..Len(vs) : c = vs[i]
    IN  IF \E k \in 1..Len(df.columns) : hit(df.columns[k])
        THEN df.columns[CHOOSE k \in 1..Len(df.columns) :
                            /\ hit(df.columns[k])
                            /\ \A j \in 1..(k - 1) : ~hit(df.columns[j])]
        ELSE NoColumn

\* column resolution of _get_latest_value
ResolveLatest(df, metric) ==
    FirstVariationIn(df, LatestVariations(metric))

\* column resolution of _get_growth_rate: only the first variation is tried
ResolveGrowth(df, metric) ==
    LET col_name == GrowthVariations(metric)[1]
    IN  IF HasColumn(df, col_name) THEN col_name ELSE NoColumn

\* column resolution of get_trend_data
ResolveTrend(df, metric) ==
    FirstVariationIn(df, TrendVariations(metric))

(* ----------------------------- extraction ----------------------------- *)

\* mutant: reads position 1 instead of position 0
LatestValueAtOne(df, metric) ==
    LET col_name == ResolveLatest(df, metric)
    IN  IF col_name = NoColumn THEN Zero
        ELSE IF df.nrows < 2 THEN Zero
        ELSE LET value == to_numeric(CellAt(df, col_name, 1))
             IN  IF IsNaN(value) THEN Zero ELSE value

\* mutant: a missing column raises instead of returning the sentinel
LatestValueRaising(df, metric) ==
    LET col_name == ResolveLatest(df, metric)
    IN  IF col_name = NoColumn THEN Raise
        ELSE IF df.nrows = 0 THEN Zero
        ELSE LET value == to_numeric(CellAt(df, col_name, 0))
             IN  IF IsNaN(value) THEN Zero ELSE value

\* the try block of _get_latest_value: df.columns raises AttributeError on
\* an object that is no DataFrame, .iloc[0] raises IndexError on a column
\* without rows; 0.0 when no column resolves or the entry is NaN
LatestValueTry(df, metric) ==
    IF ~df.is_frame THEN Raise
    ELSE LET col_name == ResolveLatest(df, metric)
         IN  IF col_name = NoColumn THEN Zero
             ELSE IF df.nrows = 0 THEN Raise
             ELSE LET value == to_numeric(CellAt(df, col_name, 0))
                  IN  IF IsNaN(value) THEN Zero ELSE value

\* mutant: no except branch, the exception reaches the caller
LatestValueUncaught(df, metric) ==
    LatestValueTry(df, metric)

\* mutant: the pd.isna check is missing
LatestValueNoNaNCheck(df, metric) ==
    IF ~df.is_frame THEN Zero
    ELSE LET col_name == ResolveLatest(df, metric)
         IN  IF col_name = NoColumn \/ df.nrows = 0 THEN Zero
             ELSE to_numeric(CellAt(df, col_name, 0))

\* _get_latest_value on frame df: the except branch turns every exception
\* of the try block into 0.0
LatestValue(df, metric) ==
    LET value == LatestValueTry(df, metric)
    IN  IF value = Raise THEN Zero ELSE value

_get_latest_value(metric, is_balance_sheet) ==
    LatestValue(Frame(is_balance_sheet), metric)

\* mutant: the division is by previous, not by abs(previous)
GrowthFromNoAbs(df, col_name) ==
    LET current == to_numeric(CellAt(df, col_name, 0))
        previous == to_numeric(CellAt(df, col_name, 1))
    IN  IF previous # Zero
        THEN Times100(Div(Sub(current, previous), previous))
        ELSE Zero

\* ((current - previous) / abs(previous)) * 100 from the two latest
\* entries of column col_name
GrowthFrom(df, col_name) ==
    LET current == to_numeric(CellAt(df, col_name, 0))
        previous == to_numeric(CellAt(df, col_name, 1))
    IN  IF previous # Zero
        THEN Times100(Div(Sub(current, previous), AbsNum(previous)))
        ELSE Zero

\* the try block of _get_growth_rate
GrowthRateTry(df, metric) ==
    IF ~df.is_frame THEN Raise
    ELSE LET col_name == ResolveGrowth(df, metric)
         IN  IF col_name = NoColumn THEN Zero
             ELSE IF df.nrows >= 2 THEN GrowthFrom(df, col_name)
             ELSE Zero

\* _get_growth_rate on frame df: the except branch returns 0.0
GrowthRate(df, metric) ==
    LET value == GrowthRateTry(df, metric)
    IN  IF value = Raise THEN Zero ELSE value

_get_growth_rate(metric, is_balance_sheet) ==
    GrowthRate(Frame(is_balance_sheet), metric)

(* ------------------------------- ratios ------------------------------- *)

\* mutant: the zero-denominator guard is missing (ZeroDivisionError)
PercentRatioUnguarded(num, den) ==
    Times100(Div(num, den))

\* (num / den * 100) if den != 0 else 0
PercentRatio(num, den) ==
    IF den # Zero THEN Times100(Div(num, den)) ELSE Zero

\* a plain ratio scaled to a percentage like the profitability ratios
PlainRatioAsPercent(num, den) ==
    IF den # Zero THEN Times100(Div(num, den)) ELSE Zero

\* num / den if den != 0 else 0
PlainRatio(num, den) ==
    IF den # Zero THEN Div(num, den) ELSE Zero

ProfitabilityKeys ==
    { "Profit Margin", "Return On Assets", "Return On Equity" }

LiquidityKeys ==
    { "Current Ratio", "Debt To Equity" }

GrowthKeys ==
    { "Revenue Growth", "Net Income Growth", "Asset Growth" }

\* {}
EmptyMapping ==
    << >>

\* calculate_profitability_ratios; raised: an unexpected exception is
\* raised inside its try block.  Any exception ends in the except branch,
\* which returns the three keys with 0.
calculate_profitability_ratios(raised) ==
    LET revenue == _get_latest_value(m_Revenue, FALSE)
        net_income == _get_latest_value(m_NetIncome, FALSE)
        total_assets == _get_latest_value(m_TotalAssets, TRUE)
        total_equity == _get_latest_value(m_TotalEquity, TRUE)
        profit_margin == PercentRatio(net_income, revenue)
        roa == PercentRatio(net_income, total_assets)
        roe == PercentRatio(net_income, total_equity)
    IN  IF raised \/ Raise \in { revenue, net_income, total_assets, total_equity,
                                 profit_margin, roa, roe }
        THEN [k \in ProfitabilityKeys |-> Zero]
        ELSE ("Profit Margin" :> Round2(profit_margin))
             @@ ("Return On Assets" :> Round2(roa))
             @@ ("Return On Equity" :> Round2(roe))

\* calculate_liquidity_ratios
calculate_liquidity_ratios(raised) ==
    LET current_assets == _get_latest_value(m_TotalCurrentAssets, TRUE)
        current_liabilities == _get_latest_value(m_TotalCurrentLiabilities, TRUE)
        total_liabilities == _get_latest_value(m_TotalLiabilities, TRUE)
        total_equity == _get_latest_value(m_TotalEquity, TRUE)
        current_ratio == PlainRatio(current_assets, current_liabilities)
        debt_to_equity == PlainRatio(total_liabilities, total_equity)
    IN  IF raised \/ Raise \in { current_assets, current_liabilities,
                                 total_liabilities, total_equity,
                                 current_ratio, debt_to_equity }
        THEN [k \in LiquidityKeys |-> Zero]
        ELSE ("Current Ratio" :> Round2(current_ratio))
             @@ ("Debt To Equity" :> Round2(debt_to_equity))

\* the growth_rates mapping built by analyze; the values are the return
\* values of _get_growth_rate as they are
AnalyzeGrowthRates ==
    ("Revenue Growth" :> _get_growth_rate(m_Revenue, FALSE))
    @@ ("Net Income Growth" :> _get_growth_rate(m_NetIncome, FALSE))
    @@ ("Asset Growth" :> _get_growth_rate(m_TotalAssets, TRUE))

\* pd.to_numeric(df[col_name], errors='coerce')
SeriesOf(df, col_name) ==
    [i \in 1..df.nrows |-> to_numeric(CellAt(df, col_name, i - 1))]

\* the Series get_trend_data stores: the coerced entries of the column in
\* the row order of df, each with the period of its row (the index of df)
TrendSeries(df, col_name) ==
    [i \in 1..df.nrows |->
        [period |-> df.index[i], value |-> SeriesOf(df, col_name)[i]]]

\* whether get_trend_data stores a series for the metric: the frame is a
\* DataFrame (an exception is caught per metric), a column resolves and the
\* coerced series is neither empty nor all NaN
HasTrend(metric) ==
    LET df == Frame(metric \in { m_TotalAssets, m_TotalEquity })
        col_name == ResolveTrend(df, metric)
    IN  /\ df.is_frame
        /\ col_name # NoColumn
        /\ df.nrows > 0
        /\ \E i \in 1..df.nrows : ~IsNaN(SeriesOf(df, col_name)[i])

\* get_trend_data(metrics)
get_trend_data(metrics) ==
    [metric \in { m \in metrics : HasTrend(m) } |->
        LET df == Frame(metric \in { m_TotalAssets, m_TotalEquity })
        IN  TrendSeries(df, ResolveTrend(df, metric))]

\* mutant: the frame is reordered in place while the series is taken
FrameSortedInPlace(df) ==
    [df EXCEPT !.data = [c \in DOMAIN df.data |->
                            [i \in 1..df.nrows |-> df.data[c][df.nrows + 1 - i]]],
               !.index = [i \in 1..df.nrows |-> df.index[df.nrows + 1 - i]]]

\* mutant: the coerced columns are assigned back into the frame, so an
\* entry that is no number is replaced by not-a-number
FrameCoercedInPlace(df) ==
    [df EXCEPT !.data = [c \in DOMAIN df.data |->
                            [i \in 1..df.nrows |->
                                IF IsNaN(to_numeric(df.data[c][i]))
                                THEN TextCell(<< "n", "a", "n" >>)
                                ELSE df.data[c][i]]]]

\* the frame after get_trend_data has read it: pd.to_numeric returns a new
\* Series and nothing is assigned into df
FrameAfterTrend(df) ==
    df

(* ---------------------------- input tables ---------------------------- *)

\* later periods repeat this entry
Filler ==
    NumCell(700)

\* the columns of length n whose two latest entries are drawn from S
Column(S, n) ==
    { [i \in 1..n |-> IF i = 1 THEN a ELSE IF i = 2 THEN b ELSE Filler] :
        a \in S, b \in S }

\* the column of length n holding v in every period
Constant(v, n) ==
    [i \in 1..n |-> NumCell(v)]

t_NA ==
    << "N", "/", "A" >>

RevenueCells ==
    { NumCell(0), NumCell(900), NumCell(1000) }

NetIncomeCells ==
    { NumCell(50), NumCell(100) }

AssetCells ==
    { NumCell(0), NumCell(1600), NumCell(2000) }

EquityCells ==
    { NumCell(0), NumCell(500) }

LiabilityCells ==
    { NumCell(0), NumCell(400) }

\* income statements of n periods: a revenue column named revenue or
\* totalRevenue, or none, and a netIncome column
IncomeTables(n) ==
    { Table(<< c_netIncome >>, n, c_netIncome :> ni) : ni \in Column(NetIncomeCells, n) }
    \cup
    { Table(<< name, c_netIncome >>, n, (name :> rev) @@ (c_netIncome :> ni)) :
        name \in { c_revenue, c_totalRevenue },
        rev \in Column(RevenueCells, n),
        ni \in Column(NetIncomeCells, n) }

BalanceBase(n, assets, liab) ==
    (c_totalAssets :> assets)
    @@ (c_totalCurrentAssets :> Constant(600, n))
    @@ (c_totalCurrentLiabilities :> liab)
    @@ (c_totalLiabilities :> Constant(1500, n))

BalanceColumns ==
    << c_totalAssets, c_totalCurrentAssets, c_totalCurrentLiabilities,
       c_totalLiabilities >>

\* balance sheets of n periods, with or without an equity column
BalanceTables(n) ==
    { Table(BalanceColumns, n, BalanceBase(n, assets, [i \in 1..n |-> liab])) :
        assets \in Column(AssetCells, n), liab \in LiabilityCells }
    \cup
    { Table(Append(BalanceColumns, name), n,
            BalanceBase(n, assets, [i \in 1..n |-> liab])
            @@ (name :> [i \in 1..n |-> eq])) :
        name \in { c_totalEquity, c_totalStockholdersEquity },
        assets \in Column(AssetCells, n),
        liab \in LiabilityCells,
        eq \in EquityCells }

\* an income statement whose raw profit margin is 23.9651
RoundingIncome ==
    Table(<< c_revenue, c_netIncome >>, 1,
          (c_revenue :> << NumCell(1000000) >>)
          @@ (c_netIncome :> << NumCell(239651) >>))

\* the income statement of Scenario 1
Scenario1Income ==
    Table(<< c_totalRevenue, c_netIncome >>, 2,
          (c_totalRevenue :> << NumCell(1000), NumCell(900) >>)
          @@ (c_netIncome :> << NumCell(100), NumCell(50) >>))

\* an income statement whose latest revenue entry is not a number
DirtyIncome ==
    Table(<< c_revenue, c_netIncome >>, 2,
          (c_revenue :> << TextCell(t_NA), NumCell(900) >>)
          @@ (c_netIncome :> << NumCell(100), NumCell(50) >>))

(* ------------------------------ analyze ------------------------------- *)

Faults ==
    { "none", "profitability", "liquidity", "late", "chart" }

\* mutant: an except branch of analyze that returned an empty mapping
FailedResultNoKeys ==
    EmptyMapping

\* the mapping returned by the except branch of analyze
FailedResult ==
    ("Growth Rates" :> EmptyMapping)
    @@ ("Profitability" :> EmptyMapping)
    @@ ("Liquidity" :> EmptyMapping)

NoResult ==
    << >>

NoHelper ==
    [op |-> "none", metric |-> << >>, is_balance_sheet |-> FALSE,
     col_name |-> NoColumn, value |-> Zero, series |-> EmptyMapping,
     mapping |-> EmptyMapping]

\* what a completed call leaves behind
Completed(is_str, f, r) ==
    /\ result' = r
    /\ pc' = "done"
    /\ calls' = calls + 1
    /\ first' = IF calls = 0
                THEN [symbol_is_str |-> is_str, fault |-> f, result |-> r]
                ELSE first

\* analyze is entered (line 211).  The first statement concatenates the
\* symbol to a str: a symbol that is no str raises TypeError, which the
\* except branch of analyze turns into the all-empty result.
AnalyzeStart(is_str, f) ==
    /\ pc = "idle"
    /\ symbol_is_str' = is_str
    /\ fault' = f
    /\ profitability_ratios' = EmptyMapping
    /\ liquidity_ratios' = EmptyMapping
    /\ growth_rates' = EmptyMapping
    /\ trend_data' = EmptyMapping
    /\ IF is_str
       THEN /\ pc' = "profitability"
            /\ UNCHANGED << result, calls, first >>
       ELSE Completed(is_str, f, FailedResult)
    /\ UNCHANGED << income_stmt, balance_sheet, charts, helper >>
    /\ UNCHANGED outside

\* profitability_ratios = self.calculate_profitability_ratios()
StepProfitability ==
    /\ pc = "profitability"
    /\ profitability_ratios' = calculate_profitability_ratios(fault = "profitability")
    /\ pc' = "liquidity"
    /\ UNCHANGED << income_stmt, balance_sheet, symbol_is_str, fault,
                    liquidity_ratios, growth_rates, trend_data, charts,
                    result, first, calls, helper >>
    /\ UNCHANGED outside

\* liquidity_ratios = self.calculate_liquidity_ratios()
StepLiquidity ==
    /\ pc = "liquidity"
    /\ liquidity_ratios' = calculate_liquidity_ratios(fault = "liquidity")
    /\ pc' = "growth"
    /\ UNCHANGED << income_stmt, balance_sheet, symbol_is_str, fault,
                    profitability_ratios, growth_rates, trend_data, charts,
                    result, first, calls, helper >>
    /\ UNCHANGED outside

\* growth_rates = {...}
StepGrowth ==
    /\ pc = "growth"
    /\ growth_rates' = AnalyzeGrowthRates
    /\ pc' = "trend"
    /\ UNCHANGED << income_stmt, balance_sheet, symbol_is_str, fault,
                    profitability_ratios, liquidity_ratios, trend_data, charts,
                    result, first, calls, helper >>
    /\ UNCHANGED outside

\* trend_data = self.get_trend_data(['Revenue']) and the logging loop over
\* it; an exception raised here is caught by the except branch of analyze
StepTrend ==
    /\ pc = "trend"
    /\ trend_data' = get_trend_data({ m_Revenue })
    /\ income_stmt' = FrameAfterTrend(income_stmt)
    /\ IF fault = "late"
       THEN Completed(symbol_is_str, fault, FailedResult)
       ELSE /\ pc' = "chart"
            /\ UNCHANGED << result, calls, first >>
    /\ UNCHANGED << balance_sheet, symbol_is_str, fault,
                    profitability_ratios, liquidity_ratios, growth_rates,
                    charts, helper >>
    /\ UNCHANGED outside

\* self.visualizer.create_trend_chart(trend_data, symbol + " Revenue Trend"):
\* the chart file is written; an exception inside create_trend_chart is
\* caught there and logged
StepChart ==
    /\ pc = "chart"
    /\ charts' = IF fault = "chart" THEN charts ELSE charts \cup { "symbol_revenue_trend.html" }
    /\ pc' = "return"
    /\ UNCHANGED << income_stmt, balance_sheet, symbol_is_str, fault,
                    profitability_ratios, liquidity_ratios, growth_rates,
                    trend_data, result, first, calls, helper >>
    /\ UNCHANGED outside

\* return {'Growth Rates': ..., 'Profitability': ..., 'Liquidity': ...}
StepReturn ==
    /\ pc = "return"
    /\ Completed(symbol_is_str, fault,
                 ("Growth Rates" :> growth_rates)
                 @@ ("Profitability" :> profitability_ratios)
                 @@ ("Liquidity" :> liquidity_ratios))
    /\ UNCHANGED << income_stmt, balance_sheet, symbol_is_str, fault,
                    profitability_ratios, liquidity_ratios, growth_rates,
                    trend_data, charts, helper >>
    /\ UNCHANGED outside

\* the caller calls analyze again on the same analyzer
AnalyzeAgain ==
    /\ pc = "done"
    /\ calls < MaxCalls
    /\ pc' = "idle"
    /\ UNCHANGED << income_stmt, balance_sheet, symbol_is_str, fault,
                    profitability_ratios, liquidity_ratios, growth_rates,
                    trend_data, charts, result, first, calls, helper >>
    /\ UNCHANGED outside

\* no UI session is running
NoUi ==
    /\ session = [id |-> 0]
    /\ page = [id |-> 0]
    /\ temp_upload = FALSE

\* load_from_ticker is not called
NoLoad ==
    [pc |-> "none"]

\* no second analysis exists
NoOther ==
    [id |-> 0]

InitRest ==
    /\ pc = "idle"
    /\ symbol_is_str = TRUE
    /\ fault = "none"
    /\ profitability_ratios = EmptyMapping
    /\ liquidity_ratios = EmptyMapping
    /\ growth_rates = EmptyMapping
    /\ trend_data = EmptyMapping
    /\ charts = {}
    /\ result = NoResult
    /\ first = NoResult
    /\ calls = 0
    /\ helper = NoHelper
    /\ other = NoOther
    /\ output_dir = TRUE
    /\ load = NoLoad
    /\ NoUi

\* FinancialAnalysis(income_stmt, balance_sheet) on two statements of the
\* same periods
Init ==
    /\ \/ \E n \in 0..MaxRows :
            /\ income_stmt \in IncomeTables(n) \cup { RoundingIncome, DirtyIncome }
            /\ balance_sheet \in BalanceTables(income_stmt.nrows)
       \/ /\ income_stmt = NotAFrame
          /\ balance_sheet = NotAFrame
    /\ InitRest

Next ==
    \/ \E f \in Faults : AnalyzeStart(TRUE, f)
    \/ AnalyzeStart(FALSE, "none")
    \/ StepProfitability
    \/ StepLiquidity
    \/ StepGrowth
    \/ StepTrend
    \/ StepChart
    \/ StepReturn

\* one analyze call on a freshly built analyzer
Spec ==
    Init /\ [][Next]_vars

(* --------------------------- repeated calls --------------------------- *)

InitRepeat ==
    /\ income_stmt \in IncomeTables(MaxRows) \cup { DirtyIncome }
    /\ balance_sheet \in
         { b \in BalanceTables(income_stmt.nrows) :
             /\ b.data[c_totalAssets][1] = NumCell(2000)
             /\ income_stmt.nrows >= 2 => b.data[c_totalAssets][2] = NumCell(1600) }
    /\ InitRest

NextRepeat ==
    \/ Next
    \/ AnalyzeAgain

\* analyze called up to MaxCalls times on one analyzer
SpecRepeat ==
    InitRepeat /\ [][NextRepeat]_vars

(* ------------------- public operations called in sequence ------------ *)

\* calculate_growth_rates
calculate_growth_rates ==
    ("revenue_growth" :> _get_growth_rate(m_Revenue, FALSE))
    @@ ("net_income_growth" :> _get_growth_rate(m_NetIncome, FALSE))
    @@ ("asset_growth" :> _get_growth_rate(m_TotalAssets, TRUE))

\* the metric lists get_trend_data is called with
TrendRequests ==
    { { m_Revenue }, { m_Revenue, m_TotalAssets } }

\* a call of one of the three calculate_ operations between analyze calls
CallCalculate(op) ==
    /\ pc \in { "idle", "done" }
    /\ helper' = [NoHelper EXCEPT
                    !.op = op,
                    !.mapping = CASE op = "calculate_growth_rates" ->
                                       calculate_growth_rates
                                  [] op = "calculate_profitability_ratios" ->
                                       calculate_profitability_ratios(FALSE)
                                  [] op = "calculate_liquidity_ratios" ->
                                       calculate_liquidity_ratios(FALSE)]
    /\ UNCHANGED << income_stmt, balance_sheet, pc, symbol_is_str, fault,
                    profitability_ratios, liquidity_ratios, growth_rates,
                    trend_data, charts, result, first, calls >>
    /\ UNCHANGED outside

\* a call of get_trend_data(metrics) between analyze calls
CallGetTrendData(metrics) ==
    /\ pc \in { "idle", "done" }
    /\ helper' = [NoHelper EXCEPT !.op = "get_trend_data",
                                  !.series = get_trend_data(metrics)]
    /\ income_stmt' = FrameAfterTrend(income_stmt)
    /\ balance_sheet' = IF m_TotalAssets \in metrics
                        THEN FrameAfterTrend(balance_sheet)
                        ELSE balance_sheet
    /\ UNCHANGED << pc, symbol_is_str, fault,
                    profitability_ratios, liquidity_ratios, growth_rates,
                    trend_data, charts, result, first, calls >>
    /\ UNCHANGED outside

\* two-period statements with text and numeric entries
InitCalls ==
    /\ income_stmt \in { Scenario1Income, DirtyIncome }
    /\ balance_sheet \in
         { b \in BalanceTables(income_stmt.nrows) :
             /\ b.data[c_totalAssets][1] = NumCell(2000)
             /\ b.data[c_totalAssets][2] = NumCell(1600) }
    /\ InitRest

NextCalls ==
    \/ NextRepeat
    \/ \E op \in { "calculate_growth_rates", "calculate_profitability_ratios",
                   "calculate_liquidity_ratios" } : CallCalculate(op)
    \/ \E metrics \in TrendRequests : CallGetTrendData(metrics)

\* analyze, the calculate_ operations and get_trend_data called in any
\* order on one analyzer
SpecCalls ==
    InitCalls /\ [][NextCalls]_vars

(* ---------------------- two analyses interleaved ---------------------- *)

\* the analyzer, locals and position of the analysis that is running
Running(id) ==
    [id |-> id, income_stmt |-> income_stmt, balance_sheet |-> balance_sheet,
     pc |-> pc, symbol_is_str |-> symbol_is_str, fault |-> fault,
     profitability_ratios |-> profitability_ratios,
     liquidity_ratios |-> liquidity_ratios, growth_rates |-> growth_rates,
     trend_data |-> trend_data, result |-> result, first |-> first,
     calls |-> calls]

\* an analysis that has not started to construct its analyzer
NotStarted(id, inc, bal) ==
    [id |-> id, income_stmt |-> inc, balance_sheet |-> bal,
     pc |-> "construct", symbol_is_str |-> TRUE, fault |-> "none",
     profitability_ratios |-> EmptyMapping, liquidity_ratios |-> EmptyMapping,
     growth_rates |-> EmptyMapping, trend_data |-> EmptyMapping,
     result |-> NoResult, first |-> NoResult, calls |-> 0]

\* Visualization.__init__ called from FinancialAnalysis.__init__ (line 25):
\* `if not os.path.exists(output_dir)`
ConstructCheck ==
    /\ pc = "construct"
    /\ pc' = IF output_dir THEN "idle" ELSE "makedirs"
    /\ UNCHANGED << income_stmt, balance_sheet, symbol_is_str, fault,
                    profitability_ratios, liquidity_ratios, growth_rates,
                    trend_data, charts, result, first, calls, helper, outside >>

\* os.makedirs(output_dir): FileExistsError when the directory has been
\* created since the check; the exception leaves both constructors
ConstructMakedirs ==
    /\ pc = "makedirs"
    /\ pc' = IF output_dir THEN "raised" ELSE "idle"
    /\ output_dir' = TRUE
    /\ UNCHANGED << income_stmt, balance_sheet, symbol_is_str, fault,
                    profitability_ratios, liquidity_ratios, growth_rates,
                    trend_data, charts, result, first, calls, helper, other, load,
                    ui >>

\* the thread of the other analysis is scheduled: the running analysis is
\* suspended between two of its steps.  The output directory and the chart
\* files are the state the two share.
Switch ==
    /\ other.id # 0
    /\ other' = Running(3 - other.id)
    /\ income_stmt' = other.income_stmt
    /\ balance_sheet' = other.balance_sheet
    /\ pc' = other.pc
    /\ symbol_is_str' = other.symbol_is_str
    /\ fault' = other.fault
    /\ profitability_ratios' = other.profitability_ratios
    /\ liquidity_ratios' = other.liquidity_ratios
    /\ growth_rates' = other.growth_rates
    /\ trend_data' = other.trend_data
    /\ result' = other.result
    /\ first' = other.first
    /\ calls' = other.calls
    /\ UNCHANGED << charts, helper, output_dir, load, ui >>

\* the statement pairs the two analyses are given
TwoStatements ==
    { << inc, bal >> :
        inc \in { Scenario1Income, DirtyIncome },
        bal \in { b \in BalanceTables(2) :
                    /\ b.data[c_totalAssets] = << NumCell(2000), NumCell(1600) >>
                    /\ b.data[c_totalCurrentLiabilities][1] = NumCell(400)
                    /\ HasColumn(b, c_totalEquity) => b.data[c_totalEquity][1] = NumCell(500) } }

InitTwo ==
    /\ \E s1 \in TwoStatements : \E s2 \in TwoStatements \ { s1 } :
         /\ income_stmt = s1[1]
         /\ balance_sheet = s1[2]
         /\ other = NotStarted(2, s2[1], s2[2])
    /\ pc = "construct"
    /\ output_dir \in BOOLEAN
    /\ symbol_is_str = TRUE
    /\ fault = "none"
    /\ profitability_ratios = EmptyMapping
    /\ liquidity_ratios = EmptyMapping
    /\ growth_rates = EmptyMapping
    /\ trend_data = EmptyMapping
    /\ charts = {}
    /\ result = NoResult
    /\ first = NoResult
    /\ calls = 0
    /\ helper = NoHelper
    /\ load = NoLoad
    /\ NoUi

NextTwo ==
    \/ ConstructCheck
    \/ ConstructMakedirs
    \/ AnalyzeStart(TRUE, "none")
    \/ StepProfitability
    \/ StepLiquidity
    \/ StepGrowth
    \/ StepTrend
    \/ StepChart
    \/ StepReturn
    \/ Switch

\* two analyses over different statements, each constructing its analyzer
\* and calling analyze once, their steps interleaved in any order
SpecTwo ==
    InitTwo /\ [][NextTwo]_vars

(* --------------------------- load_from_ticker ------------------------- *)

\* for _ in range(3)
MaxAttempts ==
    3

\* pd.DataFrame()
EmptyFrame ==
    Table(<< >>, 0, << >>)

\* what an accessor of yfinance's Ticker returns: None, or a frame with
\* the periods in its columns, written here by its transpose T
NoneValue ==
    [kind |-> "None", T |-> NotAFrame]

YF(table) ==
    [kind |-> "frame", T |-> table]

\* df.empty: some axis of the frame has length 0
IsEmpty(df) ==
    df.nrows = 0 \/ Len(df.columns) = 0

\* the values a statement accessor may return
FetchValues ==
    { NoneValue, YF(EmptyFrame), YF(Scenario1Income), YF(RoundingIncome) }

\* one pass of a retry loop: the accessor whose value was assigned (the
\* primary one, or the one tried in the except branch when the primary
\* raised), or "none" when both raised
AttemptResults ==
    { [via |-> via, value |-> v] : via \in { "primary", "fallback" }, v \in FetchValues }
    \cup { [via |-> "none", value |-> NoneValue] }

\* mutant: a loop body without the break statements
BreaksNever(r) ==
    FALSE

\* `if income_stmt is not None and not income_stmt.empty: break`
Breaks(r) ==
    r.via # "none" /\ r.value.kind # "None" /\ ~IsEmpty(r.value.T)

\* df[col] = pd.to_numeric(df[col], errors='coerce') for every column
Coerced(df) ==
    [df EXCEPT !.data = [c \in DOMAIN df.data |->
                            [i \in 1..df.nrows |->
                                IF IsNaN(to_numeric(df.data[c][i]))
                                THEN TextCell(<< "n", "a", "n" >>)
                                ELSE df.data[c][i]]]]

\* load_from_ticker is entered
StartLoad(fd) ==
    [pc |-> "validate", fd |-> fd, attempt |-> 0,
     income_stmt |-> NoneValue, balance_sheet |-> NoneValue,
     income_attempts |-> 0, balance_attempts |-> 0,
     returned |-> << >>]

\* stock.info: an empty info or an exception raises ValueError, which the
\* outer except re-raises
Validate(info_ok) ==
    /\ load.pc = "validate"
    /\ load' = [load EXCEPT !.pc = IF info_ok THEN "income" ELSE "raised"]
    /\ UNCHANGED << income_stmt, balance_sheet, pc, symbol_is_str, fault,
                    profitability_ratios, liquidity_ratios, growth_rates,
                    trend_data, charts, result, first, calls, helper,
                    other, output_dir, ui >>

\* one pass of the income statement loop (lines 143-155)
AttemptIncome(r) ==
    /\ load.pc = "income"
    /\ load.attempt < MaxAttempts
    /\ load' = [load EXCEPT
                  !.income_stmt = IF r.via = "none" THEN @ ELSE r.value,
                  !.income_attempts = @ + 1,
                  !.attempt = IF Breaks(r) THEN 0 ELSE @ + 1,
                  !.pc = IF Breaks(r) THEN "balance" ELSE "income"]
    /\ UNCHANGED << income_stmt, balance_sheet, pc, symbol_is_str, fault,
                    profitability_ratios, liquidity_ratios, growth_rates,
                    trend_data, charts, result, first, calls, helper,
                    other, output_dir, ui >>

\* one pass of the balance sheet loop (lines 158-170)
AttemptBalance(r) ==
    /\ load.pc = "balance"
    /\ load.attempt < MaxAttempts
    /\ load' = [load EXCEPT
                  !.balance_sheet = IF r.via = "none" THEN @ ELSE r.value,
                  !.balance_attempts = @ + 1,
                  !.attempt = IF Breaks(r) THEN 0 ELSE @ + 1,
                  !.pc = IF Breaks(r) THEN "process" ELSE "balance"]
    /\ UNCHANGED << income_stmt, balance_sheet, pc, symbol_is_str, fault,
                    profitability_ratios, liquidity_ratios, growth_rates,
                    trend_data, charts, result, first, calls, helper,
                    other, output_dir, ui >>

\* range(3) is exhausted: the loop ends without a break
LoopExhausted ==
    /\ load.pc \in { "income", "balance" }
    /\ load.attempt >= MaxAttempts
    /\ load' = [load EXCEPT !.attempt = 0,
                            !.pc = IF @ = "income" THEN "balance" ELSE "process"]
    /\ UNCHANGED << income_stmt, balance_sheet, pc, symbol_is_str, fault,
                    profitability_ratios, liquidity_ratios, growth_rates,
                    trend_data, charts, result, first, calls, helper,
                    other, output_dir, ui >>

\* x.T if x is not None else pd.DataFrame()
Transposed(v) ==
    IF v.kind = "None" THEN EmptyFrame ELSE v.T

\* lines 181-202: transpose, and when both statements are empty turn to
\* Alpha Vantage or raise
Process ==
    /\ load.pc = "process"
    /\ LET inc == Transposed(load.income_stmt)
           bal == Transposed(load.balance_sheet)
       IN  load' = [load EXCEPT
                      !.income_stmt = YF(inc),
                      !.balance_sheet = YF(bal),
                      !.pc = IF IsEmpty(inc) /\ IsEmpty(bal)
                             THEN IF load.fd THEN "alpha" ELSE "raised"
                             ELSE "coerce"]
    /\ UNCHANGED << income_stmt, balance_sheet, pc, symbol_is_str, fault,
                    profitability_ratios, liquidity_ratios, growth_rates,
                    trend_data, charts, result, first, calls, helper,
                    other, output_dir, ui >>

\* lines 191-200: the Alpha Vantage calls return two tables or raise
AlphaVantage(ok) ==
    /\ load.pc = "alpha"
    /\ load' = IF ok
               THEN [load EXCEPT !.income_stmt = YF(Scenario1Income),
                                 !.balance_sheet = YF(Scenario1Income),
                                 !.pc = "coerce"]
               ELSE [load EXCEPT !.pc = "raised"]
    /\ UNCHANGED << income_stmt, balance_sheet, pc, symbol_is_str, fault,
                    profitability_ratios, liquidity_ratios, growth_rates,
                    trend_data, charts, result, first, calls, helper,
                    other, output_dir, ui >>

\* lines 204-213: coerce every column and return the two statements
ReturnLoaded ==
    /\ load.pc = "coerce"
    /\ load' = [load EXCEPT
                  !.pc = "returned",
                  !.returned = [income_statement |-> Coerced(load.income_stmt.T),
                                balance_sheet |-> Coerced(load.balance_sheet.T)]]
    /\ UNCHANGED << income_stmt, balance_sheet, pc, symbol_is_str, fault,
                    profitability_ratios, liquidity_ratios, growth_rates,
                    trend_data, charts, result, first, calls, helper,
                    other, output_dir, ui >>

InitTicker ==
    /\ income_stmt = NotAFrame
    /\ balance_sheet = NotAFrame
    /\ pc = "idle"
    /\ symbol_is_str = TRUE
    /\ fault = "none"
    /\ profitability_ratios = EmptyMapping
    /\ liquidity_ratios = EmptyMapping
    /\ growth_rates = EmptyMapping
    /\ trend_data = EmptyMapping
    /\ charts = {}
    /\ result = NoResult
    /\ first = NoResult
    /\ calls = 0
    /\ helper = NoHelper
    /\ other = NoOther
    /\ output_dir = TRUE
    /\ NoUi
    /\ \E fd \in BOOLEAN : load = StartLoad(fd)

NextTicker ==
    \/ \E info_ok \in BOOLEAN : Validate(info_ok)
    \/ \E r \in AttemptResults : AttemptIncome(r)
    \/ \E r \in AttemptResults : AttemptBalance(r)
    \/ LoopExhausted
    \/ Process
    \/ \E ok \in BOOLEAN : AlphaVantage(ok)
    \/ ReturnLoaded

\* one call of load_from_ticker; a call that can take a step takes one
SpecTicker ==
    InitTicker /\ [][NextTicker]_vars /\ WF_vars(NextTicker)

(* ----------------------------- load_from_csv -------------------------- *)

n_type ==
    << "t", "y", "p", "e" >>

n_income_statement ==
    << "i", "n", "c", "o", "m", "e", "_", "s", "t", "a", "t", "e", "m", "e", "n", "t" >>

n_balance_sheet ==
    << "b", "a", "l", "a", "n", "c", "e", "_", "s", "h", "e", "e", "t" >>

\* income_cols and balance_cols of load_from_csv
IncomeCols ==
    << << "r", "e", "v", "e", "n", "u", "e" >>,
       << "s", "a", "l", "e", "s" >>,
       << "n", "e", "t", "_", "i", "n", "c", "o", "m", "e" >>,
       << "o", "p", "e", "r", "a", "t", "i", "n", "g", "_", "i", "n", "c", "o", "m", "e" >>,
       << "g", "r", "o", "s", "s", "_", "p", "r", "o", "f", "i", "t" >> >>

BalanceCols ==
    << << "a", "s", "s", "e", "t", "s" >>,
       << "l", "i", "a", "b", "i", "l", "i", "t", "i", "e", "s" >>,
       << "e", "q", "u", "i", "t", "y" >>,
       << "c", "a", "s", "h" >>,
       << "i", "n", "v", "e", "n", "t", "o", "r", "y" >> >>

\* the alternatives of the pattern 'date|year|period'
DatePatterns ==
    << << "d", "a", "t", "e" >>, << "y", "e", "a", "r" >>,
       << "p", "e", "r", "i", "o", "d" >> >>

\* the frame pd.read_csv builds: rows labelled 0, 1, ...
CsvTable(columns, nrows, data) ==
    Reindexed(Table(columns, nrows, data), [i \in 1..nrows |-> i - 1])

\* an uploaded file: its name, whether pd.read_csv can parse it, and the
\* frame it parses to
CsvFile(name, df) ==
    [name |-> name, readable |-> TRUE, df |-> df]

Unreadable ==
    [name |-> "broken.csv", readable |-> FALSE, df |-> NotAFrame]

\* df[df['type'] == tag].copy()
RowsOfType(df, tag) ==
    LET IsTag(i) == df.data[n_type][i] = TextCell(tag)
        keep == SelectSeq([i \in 1..df.nrows |-> i], IsTag)
    IN  [df EXCEPT !.nrows = Len(keep),
                   !.data = [c \in DOMAIN df.data |->
                                [j \in 1..Len(keep) |-> df.data[c][keep[j]]]],
                   !.index = [j \in 1..Len(keep) |-> df.index[keep[j]]]]

\* df.columns = df.columns.str.lower()
LowerColumns(df) ==
    [df EXCEPT !.columns = [i \in 1..Len(df.columns) |-> Lower(df.columns[i])],
               !.data = [c \in { Lower(x) : x \in DOMAIN df.data } |->
                            df.data[CHOOSE x \in DOMAIN df.data : Lower(x) = c]]]

\* df[cols].copy()
Columns(df, cols) ==
    [df EXCEPT !.columns = cols,
               !.data = [c \in { cols[i] : i \in 1..Len(cols) } |-> df.data[c]]]

\* [col for col in df.columns if any(c in col for c in cols)]
ColumnsContaining(df, cols) ==
    LET Present(col) == \E i \in 1..Len(cols) : Contains(col, cols[i])
    IN  SelectSeq(df.columns, Present)

\* df.select_dtypes(include=['float64', 'int64']).columns: the columns all
\* of whose entries are numbers
NumericColumns(df) ==
    LET IsNumeric(col) ==
            df.nrows > 0 /\ \A i \in 1..df.nrows : df.data[col][i].k = "num"
    IN  SelectSeq(df.columns, IsNumeric)

\* lines 89-104: the index both statements get.  The first column whose
\* name contains date, year or period is converted with pd.to_datetime; when
\* there is none, or an entry does not convert, the default index
\* pd.date_range(end=now, periods=n, freq='Y') is used: n year ends, oldest
\* first.
StatementIndex(df) ==
    LET date_cols == ColumnsContaining(df, DatePatterns)
        Converts(i) == LET v == to_numeric(df.data[date_cols[1]][i])
                       IN  IsNum(v) /\ v.d = 1
    IN  IF Len(date_cols) > 0 /\ \A i \in 1..df.nrows : Converts(i)
        THEN [i \in 1..df.nrows |-> to_numeric(df.data[date_cols[1]][i]).n]
        ELSE [i \in 1..df.nrows |-> i]

\* return {'income_statement': income_stmt, 'balance_sheet': balance_sheet}:
\* the dict and its keys in insertion order
Loaded(income, balance) ==
    [raised |-> FALSE, keys |-> << "income_statement", "balance_sheet" >>,
     income_statement |-> income, balance_sheet |-> balance]

\* raise ValueError("Error processing CSV file: ...")
LoadRaised ==
    [raised |-> TRUE, keys |-> << >>,
     income_statement |-> NotAFrame, balance_sheet |-> NotAFrame]

\* FinancialDataLoader.load_from_csv
load_from_csv(file) ==
    IF ~file.readable THEN LoadRaised
    ELSE IF HasColumn(file.df, n_type)
    THEN Loaded(RowsOfType(file.df, n_income_statement),
                RowsOfType(file.df, n_balance_sheet))
    ELSE LET df == LowerColumns(file.df)
             is_income == \E i \in 1..Len(IncomeCols) : HasColumn(df, IncomeCols[i])
             is_balance == \E i \in 1..Len(BalanceCols) : HasColumn(df, BalanceCols[i])
             income == IF is_income /\ is_balance
                       THEN Columns(df, ColumnsContaining(df, IncomeCols))
                       ELSE Columns(df, NumericColumns(df))
             balance == IF is_income /\ is_balance
                        THEN Columns(df, ColumnsContaining(df, BalanceCols))
                        ELSE Columns(df, NumericColumns(df))
         IN  Loaded(Reindexed(income, StatementIndex(df)),
                    Reindexed(balance, StatementIndex(df)))

\* a file with a type column: one income statement row, one balance sheet row
TypedCsv ==
    CsvFile("typed.csv",
        CsvTable(<< n_type, c_revenue, c_netIncome, c_totalAssets >>, 2,
            (n_type :> << TextCell(n_income_statement), TextCell(n_balance_sheet) >>)
            @@ (c_revenue :> << NumCell(1000), NumCell(0) >>)
            @@ (c_netIncome :> << NumCell(100), NumCell(0) >>)
            @@ (c_totalAssets :> << NumCell(0), NumCell(2000) >>)))

\* a file with income and balance sheet columns and a year column
SplitCsv ==
    CsvFile("split.csv",
        CsvTable(<< << "Y", "e", "a", "r" >>, << "R", "e", "v", "e", "n", "u", "e" >>,
                    << "A", "s", "s", "e", "t", "s" >> >>, 2,
            (<< "Y", "e", "a", "r" >> :> << NumCell(2023), NumCell(2022) >>)
            @@ (<< "R", "e", "v", "e", "n", "u", "e" >> :>
                   << NumCell(1000), NumCell(900) >>)
            @@ (<< "A", "s", "s", "e", "t", "s" >> :>
                   << NumCell(2000), NumCell(1600) >>)))

\* a file of numeric columns and one text column
NumericCsv ==
    CsvFile("numeric.csv",
        CsvTable(<< c_revenue, c_netIncome, << "l", "a", "b", "e", "l" >> >>, 2,
            (c_revenue :> << NumCell(1000), NumCell(900) >>)
            @@ (c_netIncome :> << NumCell(100), NumCell(50) >>)
            @@ (<< "l", "a", "b", "e", "l" >> :>
                   << TextCell(<< "c", "o", "r", "e" >>),
                      TextCell(<< "c", "o", "r", "e" >>) >>)))

CsvFiles ==
    { TypedCsv, SplitCsv, NumericCsv, Unreadable }

(* ------------------------------ FinanceApp ---------------------------- *)

\* a str passed where a table is expected: reading .columns raises
\* AttributeError
StrObject(text) ==
    [is_frame |-> FALSE, columns |-> << >>, nrows |-> 0, data |-> << >>,
     index |-> << >>, str |-> text]

\* the return statements of calculate_profitability_ratios, given the
\* four values it reads
ProfitabilityOf(revenue, net_income, total_assets, total_equity) ==
    LET ratios == << PercentRatio(net_income, revenue),
                     PercentRatio(net_income, total_assets),
                     PercentRatio(net_income, total_equity) >>
    IN  (CHOOSE f \in { IF \E i \in 1..3 : r[i] = Raise
                        THEN [k \in ProfitabilityKeys |-> Zero]
                        ELSE ("Profit Margin" :> Round2(r[1]))
                             @@ ("Return On Assets" :> Round2(r[2]))
                             @@ ("Return On Equity" :> Round2(r[3])) :
                        r \in { ratios } } : TRUE)

\* the return statements of calculate_liquidity_ratios, given the four
\* values it reads
LiquidityOf(current_assets, current_liabilities, total_liabilities, total_equity) ==
    LET ratios == << PlainRatio(current_assets, current_liabilities),
                     PlainRatio(total_liabilities, total_equity) >>
    IN  (CHOOSE f \in { IF \E i \in 1..2 : r[i] = Raise
                        THEN [k \in LiquidityKeys |-> Zero]
                        ELSE ("Current Ratio" :> Round2(r[1]))
                             @@ ("Debt To Equity" :> Round2(r[2])) :
                        r \in { ratios } } : TRUE)

\* FinancialAnalysis(inc, bal).analyze(symbol) for a str symbol, without
\* injected failures
analyze(inc, bal) ==
    ("Growth Rates" :>
        (("Revenue Growth" :> GrowthRate(inc, m_Revenue))
         @@ ("Net Income Growth" :> GrowthRate(inc, m_NetIncome))
         @@ ("Asset Growth" :> GrowthRate(bal, m_TotalAssets))))
    @@ ("Profitability" :>
        ProfitabilityOf(LatestValue(inc, m_Revenue),
                        LatestValue(inc, m_NetIncome),
                        LatestValue(bal, m_TotalAssets),
                        LatestValue(bal, m_TotalEquity)))
    @@ ("Liquidity" :>
        LiquidityOf(LatestValue(bal, m_TotalCurrentAssets),
                    LatestValue(bal, m_TotalCurrentLiabilities),
                    LatestValue(bal, m_TotalLiabilities),
                    LatestValue(bal, m_TotalEquity)))

\* a, b = value: unpacking iterates the value, and iterating a dict yields
\* its keys
Unpack(value) ==
    [i \in 1..Len(value.keys) |-> StrObject(value.keys[i])]

\* the dict both operations of FinanceApp return after an analysis
AppResult(symbol, inc, bal) ==
    [symbol |-> symbol, metrics |-> analyze(inc, bal),
     income_stmt |-> inc, balance_sheet |-> bal]

\* FinanceApp.process_csv on the loader class data_loader.py defines.  An
\* exception of the loader, or of unpacking anything but two items, ends
\* in the except branch.
process_csv(file) ==
    LET loaded == load_from_csv(file)
    IN  IF loaded.raised \/ Len(loaded.keys) # 2
        THEN [error |-> "Failed to process CSV file: ..."]
        ELSE LET pair == Unpack(loaded)
             IN  AppResult("TEMP_UPLOAD", pair[1], pair[2])

\* DataLoader.get_financial_data(symbol): what the call at line 43 may
\* yield: an exception, a pair holding None, or a pair of statements
StockFetches ==
    { [raised |-> TRUE, income_stmt |-> NotAFrame, balance_sheet |-> NotAFrame],
      [raised |-> FALSE, income_stmt |-> NotAFrame, balance_sheet |-> NotAFrame],
      [raised |-> FALSE, income_stmt |-> Scenario1Income,
       balance_sheet |-> NotAFrame] }
    \cup
    { [raised |-> FALSE, income_stmt |-> inc,
       balance_sheet |-> Table(BalanceColumns, 2,
                               BalanceBase(2, << NumCell(2000), NumCell(1600) >>,
                                           Constant(400, 2)))] :
        inc \in { Scenario1Income, DirtyIncome } }

\* FinanceApp.analyze_stock, given what get_financial_data yields
analyze_stock(fetched) ==
    IF fetched.raised
    THEN [error |-> "An error occurred during analysis: ..."]
    ELSE IF fetched.income_stmt = NotAFrame \/ fetched.balance_sheet = NotAFrame
    THEN [error |-> "Failed to load financial data. ..."]
    ELSE AppResult("AAPL", fetched.income_stmt, fetched.balance_sheet)

(* --------------------------------- main ------------------------------- *)

\* st.session_state.financial_data = None
NoneData ==
    [is_none |-> TRUE]

\* key in d, for a dict d or None
HasKey(d, key) ==
    key \in DOMAIN d

\* the file uploader holds no file
NoFile ==
    [name |-> "None", readable |-> FALSE, df |-> NotAFrame]

\* the session state of a new session; current_insight and last_question
\* stand for the values lines 276-279 give them before their first read
NewSession ==
    [financial_data |-> NoneData, analysis_done |-> FALSE,
     current_insight |-> "", last_question |-> "",
     input_method |-> "Ticker Symbol", uploaded_file |-> NoFile,
     custom_question |-> "", common_questions |-> ""]

\* nothing written to insight_container
NoContent ==
    [text |-> "", formatted |-> FALSE]

\* two of the common questions, and a question the user types
CommonQuestions ==
    { "How does the growth trajectory look?",
      "Is the company financially healthy?" }

TypedQuestions ==
    { "Why did revenue fall?" }

\* what generate_insights may return: a text of the model, an empty
\* completion, or the message of its except branch
Answers ==
    { "The company is growing.", "",
      "Error generating insights. Please try again." }

\* the ways writing the upload to temp_upload.csv may go
WriteOutcomes ==
    { "written", "open_raises", "write_raises" }

\* `if os.path.exists("temp_upload.csv"): os.remove("temp_upload.csv")`
\* after process_csv: whether the file exists afterwards
CleanUp(exists) ==
    FALSE

\* mutant: an except branch without the clean-up
CleanUpOnErrorMissing(exists) ==
    exists

\* the same two lines in the except branch
CleanUpOnError(exists) ==
    FALSE

\* the question the handling block acts on: the typed one, else the
\* selected one
ActiveQuestion(s) ==
    IF s.custom_question # "" THEN s.custom_question ELSE s.common_questions

\* mutant: a handling block that does not compare with last_question
DiffersAlways(question, last_question) ==
    TRUE

\* question != st.session_state.last_question
Differs(question, last_question) ==
    question # last_question

\* generate_and_display_insight(question) for a non-empty question, after
\* current_insight was cleared: the session state and the container
GenerateAndDisplay(s, question, answer) ==
    [session |-> [s EXCEPT !.last_question = question,
                           !.current_insight = answer],
     container |-> IF answer # "" THEN [text |-> answer, formatted |-> TRUE]
                   ELSE NoContent,
     llm_calls |-> 1]

\* lines 330-340
HandleQuestion(s, answer) ==
    LET question == ActiveQuestion(s)
    IN  IF question # ""
        THEN IF Differs(question, s.last_question)
             THEN GenerateAndDisplay([s EXCEPT !.current_insight = ""],
                                     question, answer)
             ELSE [session |-> s, container |-> NoContent, llm_calls |-> 0]
        ELSE [session |-> s,
              container |-> IF s.current_insight # ""
                            THEN [text |-> s.current_insight, formatted |-> FALSE]
                            ELSE NoContent,
              llm_calls |-> 0]

\* the insights tab: the handling block, then the Clear Answer button,
\* which is there when current_insight is not empty
InsightsTab(s, click, answer) ==
    LET h == HandleQuestion(s, answer)
        clear == h.session.current_insight # ""
    IN  IF clear /\ click = "clear"
        THEN [session |-> [h.session EXCEPT !.current_insight = "",
                                            !.last_question = ""],
              container |-> NoContent, llm_calls |-> h.llm_calls,
              clear |-> TRUE, pending |-> TRUE]
        ELSE [session |-> h.session, container |-> h.container,
              llm_calls |-> h.llm_calls, clear |-> clear, pending |-> FALSE]

\* lines 122-128: Reset Analysis is there when analysis_done, and pressed
Resetting(s, click) ==
    s.analysis_done /\ click = "reset"

\* the run reaches app.analyze_stock(ticker)
Analysing(s, click) ==
    /\ ~Resetting(s, click)
    /\ ~s.analysis_done
    /\ s.input_method = "Ticker Symbol"
    /\ click = "analyze"

\* the run handles an uploaded file
Uploading(s, click) ==
    /\ ~Resetting(s, click)
    /\ ~s.analysis_done
    /\ s.input_method = "CSV Upload"
    /\ s.uploaded_file # NoFile

\* what the operation of FinanceApp the run calls may return
ReturnedData(s, click) ==
    IF Analysing(s, click) THEN { analyze_stock(fetched) : fetched \in StockFetches }
    ELSE IF Uploading(s, click) THEN { process_csv(s.uploaded_file) }
    ELSE { NoneData }

\* lines 122-175: the reset button and the input block, data being what
\* the operation of FinanceApp returns.  ended: the run ended here, at a
\* return statement or at st.experimental_rerun(); upload: how the handling
\* of an upload ended; analysed: an analysis ran and wrote its chart
InputBlock(s, click, data, write, exists) ==
    IF Resetting(s, click)
    THEN [session |-> [s EXCEPT !.financial_data = NoneData,
                                !.analysis_done = FALSE,
                                !.current_insight = "",
                                !.last_question = ""],
          ended |-> TRUE, pending |-> TRUE, inputs |-> FALSE, error |-> FALSE,
          upload |-> "none", exists |-> exists, analysed |-> FALSE]
    ELSE IF Analysing(s, click)
    THEN [session |-> [s EXCEPT !.financial_data = data,
                                !.analysis_done = ~HasKey(data, "error")],
          ended |-> HasKey(data, "error"), pending |-> FALSE, inputs |-> TRUE,
          error |-> HasKey(data, "error"),
          upload |-> "none", exists |-> exists,
          analysed |-> HasKey(data, "metrics")]
    ELSE IF ~Uploading(s, click)
    THEN [session |-> s, ended |-> FALSE, pending |-> FALSE,
          inputs |-> ~s.analysis_done, error |-> FALSE,
          upload |-> "none", exists |-> exists, analysed |-> FALSE]
    ELSE IF write = "open_raises"
    THEN [session |-> s, ended |-> TRUE, pending |-> FALSE, inputs |-> TRUE,
          error |-> TRUE, upload |-> "open raised",
          exists |-> CleanUpOnError(exists), analysed |-> FALSE]
    ELSE IF write = "write_raises"
    THEN [session |-> s, ended |-> TRUE, pending |-> FALSE, inputs |-> TRUE,
          error |-> TRUE, upload |-> "write raised",
          exists |-> CleanUpOnError(TRUE), analysed |-> FALSE]
    ELSE [session |-> [s EXCEPT !.financial_data = data,
                                !.analysis_done = ~HasKey(data, "error")],
          ended |-> HasKey(data, "error"), pending |-> FALSE, inputs |-> TRUE,
          error |-> HasKey(data, "error"),
          upload |-> IF HasKey(data, "error") THEN "error" ELSE "processed",
          exists |-> CleanUp(TRUE),
          analysed |-> HasKey(data, "metrics")]

\* line 177: the run goes on to the tabs
ShowsTabs(b) ==
    /\ ~b.ended
    /\ b.session.financial_data # NoneData
    /\ HasKey(b.session.financial_data, "metrics")

\* lines 177-352 after input block b
ResultBlock(b, click, answer) ==
    IF ShowsTabs(b) THEN InsightsTab(b.session, click, answer)
    ELSE [session |-> b.session, container |-> NoContent, llm_calls |-> 0,
          clear |-> FALSE, pending |-> b.pending]

\* the session state a run leaves: widgets a completed run did not create
\* lose their value
SessionAfter(b, t) ==
    IF t.pending THEN t.session
    ELSE [t.session EXCEPT
            !.uploaded_file = IF b.inputs THEN @ ELSE NoFile,
            !.custom_question = IF ShowsTabs(b) THEN @ ELSE "",
            !.common_questions = IF ShowsTabs(b) THEN @ ELSE ""]

\* the page a run that began with session state s leaves
PageAfter(s, b, t) ==
    [pending |-> t.pending, inputs |-> b.inputs, reset |-> s.analysis_done,
     upload |-> b.upload, error |-> b.error, tabs |-> ShowsTabs(b),
     insight_container |-> t.container, clear |-> t.clear,
     llm_calls |-> t.llm_calls]

\* one run of main() on session state s in which the button click (or
\* none) was pressed, whatever the collaborators answer in it
Render(s, click) ==
    \E begin \in { s } :
    \E data \in ReturnedData(begin, click), answer \in Answers,
       write \in IF Uploading(begin, click) THEN WriteOutcomes ELSE { "written" } :
    \E b \in { InputBlock(begin, click, data, write, temp_upload) } :
    \E t \in { ResultBlock(b, click, answer) } :
        /\ session' = SessionAfter(b, t)
        /\ page' = PageAfter(begin, b, t)
        /\ temp_upload' = b.exists
        /\ charts' = IF b.analysed
                     THEN charts \cup { "symbol_revenue_trend.html" }
                     ELSE charts
        /\ output_dir' = TRUE
        /\ UNCHANGED << income_stmt, balance_sheet, pc, symbol_is_str,
                        fault, profitability_ratios, liquidity_ratios,
                        growth_rates, trend_data, result, first, calls,
                        helper, other, load >>

\* the user picks the other input method
ChooseMethod(method) ==
    /\ ~page.pending
    /\ method # session.input_method
    /\ Render([session EXCEPT !.input_method = method], "none")

\* the user presses Analyze
ClickAnalyze ==
    /\ ~page.pending
    /\ page.inputs
    /\ session.input_method = "Ticker Symbol"
    /\ Render(session, "analyze")

\* the user uploads a file
UploadFile(file) ==
    /\ ~page.pending
    /\ page.inputs
    /\ session.input_method = "CSV Upload"
    /\ Render([session EXCEPT !.uploaded_file = file], "none")

\* the user presses Reset Analysis
ClickReset ==
    /\ ~page.pending
    /\ page.reset
    /\ Render(session, "reset")

\* the user types a question, or empties the field
TypeQuestion(question) ==
    /\ ~page.pending
    /\ page.tabs
    /\ question # session.custom_question
    /\ Render([session EXCEPT !.custom_question = question], "none")

\* the user selects a common question, or the empty entry
SelectQuestion(question) ==
    /\ ~page.pending
    /\ page.tabs
    /\ question # session.common_questions
    /\ Render([session EXCEPT !.common_questions = question], "none")

\* the user presses Clear Answer
ClickClear ==
    /\ ~page.pending
    /\ page.clear
    /\ Render(session, "clear")

\* the run st.experimental_rerun() asked for
Rerun ==
    /\ page.pending
    /\ Render(session, "none")

\* the page the first run of a new session leaves
FirstPage ==
    PageAfter(NewSession,
              InputBlock(NewSession, "none", NoneData, "written", FALSE),
              ResultBlock(InputBlock(NewSession, "none", NoneData, "written", FALSE),
                          "none", ""))

InitUI ==
    /\ income_stmt = NotAFrame
    /\ balance_sheet = NotAFrame
    /\ pc = "idle"
    /\ symbol_is_str = TRUE
    /\ fault = "none"
    /\ profitability_ratios = EmptyMapping
    /\ liquidity_ratios = EmptyMapping
    /\ growth_rates = EmptyMapping
    /\ trend_data = EmptyMapping
    /\ charts = {}
    /\ result = NoResult
    /\ first = NoResult
    /\ calls = 0
    /\ helper = NoHelper
    /\ other = NoOther
    /\ load = NoLoad
    /\ output_dir = TRUE
    /\ session = NewSession
    /\ page = FirstPage
    /\ temp_upload \in BOOLEAN

NextUI ==
    \/ \E method \in { "Ticker Symbol", "CSV Upload" } : ChooseMethod(method)
    \/ ClickAnalyze
    \/ \E file \in CsvFiles : UploadFile(file)
    \/ ClickReset
    \/ \E question \in TypedQuestions \cup { "" } : TypeQuestion(question)
    \/ \E question \in CommonQuestions \cup { "" } : SelectQuestion(question)
    \/ ClickClear
    \/ Rerun

SpecUI ==
    InitUI /\ [][NextUI]_vars

(* ------------------------ direct helper calls ------------------------- *)

\* column names a data source may supply
c_sales ==
    << "s", "a", "l", "e", "s" >>

\* a metric name that metric_variations does not list
m_Sales ==
    << "S", "a", "l", "e", "s" >>

\* the metric names the helpers are called with
HelperMetrics ==
    Metrics \cup { m_Sales }

ResolveNames ==
    << c_revenue, c_totalRevenue, c_TotalRevenue, c_REVENUE, c_RevenueUSD,
       c_netIncome, c_netincome, c_totalAssets, c_totalEquity,
       c_totalStockholdersEquity, c_totalLiabilities, c_sales >>

NameIndex(name) ==
    CHOOSE k \in 1..Len(ResolveNames) : ResolveNames[k] = name

\* the column of a name holds numbers that identify the name and the period
MarkedColumn(name, n) ==
    [i \in 1..n |-> NumCell(10 * NameIndex(name) + i)]

\* sequences of at most MaxCols distinct names
ColumnLists ==
    { cs \in UNION { [1..k -> { ResolveNames[i] : i \in 1..Len(ResolveNames) }] : k \in 0..MaxCols } :
        \A i, j \in 1..Len(cs) : i # j => cs[i] # cs[j] }

MarkedTable(cs, n) ==
    Table(cs, n, [c \in { cs[i] : i \in 1..Len(cs) } |-> MarkedColumn(c, n)])

\* load_from_csv hands the same numeric columns to both statements
InitResolve ==
    /\ \/ \E cs \in ColumnLists, n \in 0..MaxRows :
            /\ income_stmt = MarkedTable(cs, n)
            /\ balance_sheet = MarkedTable(cs, n)
       \/ /\ income_stmt = NotAFrame
          /\ balance_sheet = NotAFrame
    /\ InitRest

\* a direct call self._get_latest_value(metric, is_balance_sheet)
CallLatestValue(metric, is_balance_sheet) ==
    /\ pc = "idle"
    /\ helper = NoHelper
    /\ helper' = [op |-> "latest", metric |-> metric,
                  is_balance_sheet |-> is_balance_sheet,
                  col_name |-> ResolveLatest(Frame(is_balance_sheet), metric),
                  value |-> _get_latest_value(metric, is_balance_sheet),
                  series |-> EmptyMapping,
                  mapping |-> EmptyMapping]
    /\ UNCHANGED << income_stmt, balance_sheet, pc, symbol_is_str, fault,
                    profitability_ratios, liquidity_ratios, growth_rates,
                    trend_data, charts, result, first, calls >>
    /\ UNCHANGED outside

\* a direct call self._get_growth_rate(metric, is_balance_sheet)
CallGrowthRate(metric, is_balance_sheet) ==
    /\ pc = "idle"
    /\ helper = NoHelper
    /\ helper' = [op |-> "growth", metric |-> metric,
                  is_balance_sheet |-> is_balance_sheet,
                  col_name |-> ResolveGrowth(Frame(is_balance_sheet), metric),
                  value |-> _get_growth_rate(metric, is_balance_sheet),
                  series |-> EmptyMapping,
                  mapping |-> EmptyMapping]
    /\ UNCHANGED << income_stmt, balance_sheet, pc, symbol_is_str, fault,
                    profitability_ratios, liquidity_ratios, growth_rates,
                    trend_data, charts, result, first, calls >>
    /\ UNCHANGED outside

\* a direct call self.get_trend_data([metric])
CallTrendData(metric) ==
    /\ pc = "idle"
    /\ helper = NoHelper
    /\ helper' = [op |-> "trend", metric |-> metric,
                  is_balance_sheet |-> metric \in { m_TotalAssets, m_TotalEquity },
                  col_name |-> ResolveTrend(Frame(metric \in { m_TotalAssets, m_TotalEquity }),
                                            metric),
                  value |-> Zero,
                  series |-> get_trend_data({ metric }),
                  mapping |-> EmptyMapping]
    /\ UNCHANGED << income_stmt, balance_sheet, pc, symbol_is_str, fault,
                    profitability_ratios, liquidity_ratios, growth_rates,
                    trend_data, charts, result, first, calls >>
    /\ UNCHANGED outside

NextResolve ==
    \/ \E metric \in HelperMetrics, is_balance_sheet \in BOOLEAN :
           CallLatestValue(metric, is_balance_sheet)
    \/ \E metric \in HelperMetrics, is_balance_sheet \in BOOLEAN :
           CallGrowthRate(metric, is_balance_sheet)
    \/ \E metric \in HelperMetrics : CallTrendData(metric)

\* one helper called directly on a table of arbitrary column names
SpecResolve ==
    InitResolve /\ [][NextResolve]_vars

(* ------------------- direct helper calls on dirty data ---------------- *)

t_dollar_1000 ==
    << "$", "1", ",", "0", "0", "0" >>

t_1_000_USD ==
    << "1", " ", "0", "0", "0", " ", "U", "S", "D" >>

t_12_5 ==
    << "1", "2", ".", "5" >>

\* entries a data source may supply: numbers of either sign, zero, a
\* numeric text and texts that are no numbers
ValueCells ==
    { NumCell(-200), NumCell(0), NumCell(100), TextCell(t_12_5),
      TextCell(t_NA), TextCell(t_dollar_1000), TextCell(t_1_000_USD) }

\* the tables of one column and n rows over ValueCells, stored most recent
\* first or oldest first
ValueTables(n) ==
    { Reindexed(Table(<< name >>, n, name :> cells), index) :
        name \in { c_revenue, c_netIncome, c_totalAssets },
        cells \in [1..n -> ValueCells],
        index \in { RecentFirst(n), [i \in 1..n |-> i] } }

InitValues ==
    /\ \E n \in 0..MaxRows :
        /\ income_stmt \in ValueTables(n)
        /\ balance_sheet = income_stmt
    /\ InitRest

\* one helper called directly on a one-column table of arbitrary entries
SpecValues ==
    InitValues /\ [][NextResolve]_vars

(* ------------------------ claims: resolution -------------------------- *)

\* the synonyms of a metric, as a set
Synonyms(metric) ==
    { LatestVariations(metric)[i] : i \in 1..Len(LatestVariations(metric)) }

ColumnsOf(df) ==
    { df.columns[i] : i \in 1..Len(df.columns) }

\* the number the helper-call tables hold at position 0 of a column
MarkAtZero(name) ==
    Num(10 * NameIndex(name) + 1, 1)

HelperFrame ==
    Frame(helper.is_balance_sheet)

\* C1: whenever some column name equals a synonym of the metric,
\* _get_latest_value reads a column whose name equals a synonym of the
\* metric, whatever other columns (containing a synonym as a substring) the
\* table has.
C1_ExactMatchWins ==
    (helper.op = "latest" /\ ColumnsOf(HelperFrame) \cap Synonyms(helper.metric) # {})
    => /\ helper.col_name \in ColumnsOf(HelperFrame) \cap Synonyms(helper.metric)
       /\ HelperFrame.nrows > 0 => helper.value = MarkAtZero(helper.col_name)

\* C1 witness: totalRevenue is read although Revenue (USD millions), which
\* contains the earlier synonym revenue, comes first in the table
C1_Witness ==
    /\ helper.op = "latest"
    /\ helper.metric = m_Revenue
    /\ HelperFrame.columns = << c_RevenueUSD, c_totalRevenue >>
    /\ HelperFrame.nrows > 0
    /\ ContainsCI(c_RevenueUSD, c_revenue)
    /\ helper.value = MarkAtZero(c_totalRevenue)

\* no column equals a synonym up to letter case
NoExactCI(df, metric) ==
    \A c \in ColumnsOf(df), v \in Synonyms(metric) : ~EqualCI(c, v)

\* the columns that contain a synonym as a case-insensitive substring
SubstringMatches(df, metric) ==
    { c \in ColumnsOf(df) : \E v \in Synonyms(metric) : ContainsCI(c, v) }

\* C2: when no column matches a synonym exactly but some column contains a
\* synonym as a case-insensitive substring, _get_latest_value reads such a
\* column and returns its position-0 value, not the 0.0 sentinel.
C2_SubstringFallback ==
    (/\ helper.op = "latest"
     /\ NoExactCI(HelperFrame, helper.metric)
     /\ SubstringMatches(HelperFrame, helper.metric) # {}
     /\ HelperFrame.nrows > 0)
    => \E c \in SubstringMatches(HelperFrame, helper.metric) :
           helper.value = MarkAtZero(c)

\* the columns that equal a synonym up to letter case
CaseMatches(df, metric) ==
    { c \in ColumnsOf(df) : \E v \in Synonyms(metric) : EqualCI(c, v) }

\* C3: a column whose name differs from a synonym only in letter case is
\* resolved for the metric, by _get_latest_value and by _get_growth_rate.
C3_CaseInsensitiveExact ==
    (/\ helper.op \in { "latest", "growth" }
     /\ ColumnsOf(HelperFrame) \cap Synonyms(helper.metric) = {}
     /\ CaseMatches(HelperFrame, helper.metric) # {})
    => /\ (helper.op = "latest" /\ HelperFrame.nrows > 0)
          => \E c \in CaseMatches(HelperFrame, helper.metric) :
                 helper.value = MarkAtZero(c)
       /\ (helper.op = "growth" /\ HelperFrame.nrows >= 2)
          => \E c \in CaseMatches(HelperFrame, helper.metric) :
                 helper.value = GrowthFrom(HelperFrame, c)

\* C6: with fewer than two periods the growth rate is exactly 0.0, and on a
\* one-row table _get_latest_value returns the entry of that row.
C6_FewerThanTwoPeriods ==
    /\ (helper.op = "growth" /\ HelperFrame.nrows < 2) => helper.value = Zero
    /\ (/\ helper.op = "latest"
        /\ HelperFrame.nrows = 1
        /\ ColumnsOf(HelperFrame) \cap Synonyms(helper.metric) # {})
       => \E c \in ColumnsOf(HelperFrame) \cap Synonyms(helper.metric) :
              helper.value = MarkAtZero(c)

\* C6 witness: a one-row table whose revenue column is read by both helpers
C6_Witness ==
    /\ HelperFrame.nrows = 1
    /\ HelperFrame.columns = << c_revenue >>
    /\ helper.metric = m_Revenue
    /\ \/ helper.op = "growth" /\ helper.col_name = c_revenue /\ helper.value = Zero
       \/ helper.op = "latest" /\ helper.value = MarkAtZero(c_revenue)

(* -------------------------- claims: analyze --------------------------- *)

\* analyze has returned from its try block
Returned ==
    /\ pc = "done"
    /\ symbol_is_str
    /\ fault \in { "none", "chart" }

\* the entry at position 0 of the first of the named columns the table has,
\* as a number; 0.0 when there is none or it is no number
AtZero(df, names) ==
    LET present == { i \in 1..Len(names) : names[i] \in ColumnsOf(df) }
    IN  IF present = {} \/ df.nrows = 0 THEN Zero
        ELSE LET i == CHOOSE k \in present : \A j \in present : k <= j
                 x == to_numeric(df.data[names[i]][1])
             IN  IF IsNum(x) THEN x ELSE Zero

Revenue0 ==
    AtZero(income_stmt, << c_revenue, c_totalRevenue >>)

NetIncome0 ==
    AtZero(income_stmt, << c_netIncome >>)

TotalAssets0 ==
    AtZero(balance_sheet, << c_totalAssets >>)

TotalEquity0 ==
    AtZero(balance_sheet, << c_totalEquity, c_totalStockholdersEquity >>)

CurrentAssets0 ==
    AtZero(balance_sheet, << c_totalCurrentAssets >>)

CurrentLiabilities0 ==
    AtZero(balance_sheet, << c_totalCurrentLiabilities >>)

TotalLiabilities0 ==
    AtZero(balance_sheet, << c_totalLiabilities >>)

\* num / den * 100 rounded to 2 decimals, for den # 0
Percent2(num, den) ==
    Round2(Num(num.n * den.d * 100, num.d * den.n))

\* num / den rounded to 2 decimals, for den # 0
Plain2(num, den) ==
    Round2(Num(num.n * den.d, num.d * den.n))

\* the metric and frame behind each key of Growth Rates
GrowthMetric(key) ==
    CASE key = "Revenue Growth" -> m_Revenue
      [] key = "Net Income Growth" -> m_NetIncome
      [] key = "Asset Growth" -> m_TotalAssets

GrowthFrame(key) ==
    IF key = "Asset Growth" THEN balance_sheet ELSE income_stmt

\* C4: the growth rate of a metric is computed from the column that
\* _get_latest_value resolves for it (whole synonym list); for Scenario 1
\* analyze reports Revenue Growth 11.11 and Profit Margin 10.0.
C4_GrowthUsesSynonyms ==
    Returned =>
       /\ \A key \in GrowthKeys :
            LET df == GrowthFrame(key)
                cands == ColumnsOf(df) \cap Synonyms(GrowthMetric(key))
            IN  (cands # {} /\ df.nrows >= 2)
                => \E c \in cands :
                       Round2(result["Growth Rates"][key]) = Round2(GrowthFrom(df, c))
       /\ income_stmt = Scenario1Income
          => /\ Round2(result["Growth Rates"]["Revenue Growth"]) = Num(1111, 100)
             /\ result["Profitability"]["Profit Margin"] = Num(10, 1)

\* every finite value of a mapping is a multiple of 0.01
AllRounded2(mapping) ==
    \A key \in DOMAIN mapping : IsNum(mapping[key]) => IsRounded2(mapping[key])

\* C5: every number in the result of analyze (growth rates, profitability
\* ratios, liquidity ratios) is rounded to 2 decimal places.
C5_AllRounded ==
    Returned =>
       /\ AllRounded2(result["Growth Rates"])
       /\ AllRounded2(result["Profitability"])
       /\ AllRounded2(result["Liquidity"])

\* the entry at position 1 of the column _get_growth_rate reads for the key
Previous(key) ==
    to_numeric(CellAt(GrowthFrame(key), ResolveGrowth(GrowthFrame(key), GrowthMetric(key)), 1))

HasPrevious(key) ==
    /\ ResolveGrowth(GrowthFrame(key), GrowthMetric(key)) # NoColumn
    /\ GrowthFrame(key).nrows >= 2

\* C7: a ratio whose denominator is 0.0 is exactly 0.0, and every other
\* ratio is still computed from its own inputs (no division fault takes a
\* category down).
C7_ZeroDenominators ==
    Returned =>
       LET p == result["Profitability"]
           l == result["Liquidity"]
           g == result["Growth Rates"]
       IN  /\ DOMAIN p = ProfitabilityKeys
           /\ DOMAIN l = LiquidityKeys
           /\ DOMAIN g = GrowthKeys
           /\ p["Profit Margin"] =
                IF Revenue0 = Zero THEN Zero ELSE Percent2(NetIncome0, Revenue0)
           /\ p["Return On Assets"] =
                IF TotalAssets0 = Zero THEN Zero ELSE Percent2(NetIncome0, TotalAssets0)
           /\ p["Return On Equity"] =
                IF TotalEquity0 = Zero THEN Zero ELSE Percent2(NetIncome0, TotalEquity0)
           /\ l["Current Ratio"] =
                IF CurrentLiabilities0 = Zero THEN Zero
                ELSE Plain2(CurrentAssets0, CurrentLiabilities0)
           /\ l["Debt To Equity"] =
                IF TotalEquity0 = Zero THEN Zero
                ELSE Plain2(TotalLiabilities0, TotalEquity0)
           /\ \A key \in GrowthKeys :
                (HasPrevious(key) /\ Previous(key) = Zero) => g[key] = Zero

\* C7 witness: revenue and the previous total assets are 0, so Profit
\* Margin and Asset Growth are 0.0, while Return On Assets is computed
C7_Witness ==
    /\ Returned
    /\ Revenue0 = Zero
    /\ HasColumn(income_stmt, c_revenue)
    /\ NetIncome0 # Zero
    /\ TotalAssets0 # Zero
    /\ HasPrevious("Asset Growth")
    /\ Previous("Asset Growth") = Zero
    /\ result["Profitability"]["Profit Margin"] = Zero
    /\ result["Profitability"]["Return On Assets"] # Zero
    /\ result["Growth Rates"]["Asset Growth"] = Zero

NoEquityColumn ==
    /\ ~HasColumn(balance_sheet, c_totalEquity)
    /\ ~HasColumn(balance_sheet, c_totalStockholdersEquity)

\* C8: without an equity column in the balance sheet, analyze returns
\* Return On Equity 0.0 and Debt To Equity 0.0, and Profit Margin, Return On
\* Assets and Current Ratio are the values of the columns that are present.
C8_MissingEquity ==
    (Returned /\ NoEquityColumn) =>
       /\ result # FailedResult
       /\ result["Profitability"]["Return On Equity"] = Zero
       /\ result["Liquidity"]["Debt To Equity"] = Zero
       /\ result["Profitability"]["Profit Margin"] =
            IF Revenue0 = Zero THEN Zero ELSE Percent2(NetIncome0, Revenue0)
       /\ result["Profitability"]["Return On Assets"] =
            IF TotalAssets0 = Zero THEN Zero ELSE Percent2(NetIncome0, TotalAssets0)
       /\ result["Liquidity"]["Current Ratio"] =
            IF CurrentLiabilities0 = Zero THEN Zero
            ELSE Plain2(CurrentAssets0, CurrentLiabilities0)

\* C8 witness: no equity column, and the other three ratios are not 0
C8_Witness ==
    /\ Returned
    /\ NoEquityColumn
    /\ result["Profitability"]["Return On Equity"] = Zero
    /\ result["Liquidity"]["Debt To Equity"] = Zero
    /\ result["Profitability"]["Profit Margin"] # Zero
    /\ result["Profitability"]["Return On Assets"] # Zero
    /\ result["Liquidity"]["Current Ratio"] # Zero

\* C9: a later analyze call with the same symbol and the same fault as the
\* first call on the analyzer returns the result of the first call.
C9_Idempotent ==
    (/\ pc = "done"
     /\ calls >= 2
     /\ symbol_is_str = first.symbol_is_str
     /\ fault = first.fault)
    => result = first.result

\* C9 witness: a second call has returned the non-trivial result of the first
C9_Witness ==
    /\ pc = "done"
    /\ calls = 2
    /\ symbol_is_str
    /\ fault = "none"
    /\ first.fault = "none"
    /\ first.symbol_is_str
    /\ result = first.result
    /\ income_stmt.nrows >= 2
    /\ result["Growth Rates"]["Revenue Growth"] # Zero
    /\ result["Profitability"]["Profit Margin"] # Zero

\* C10: when the computation of one category, or a later step of analyze,
\* raises, only that category is the empty mapping in the result; every
\* category that was computed is returned with its computed values.
C10_FailureIsolation ==
    (pc = "done" /\ symbol_is_str) =>
       /\ result["Profitability"] =
            IF fault = "profitability" THEN EmptyMapping
            ELSE calculate_profitability_ratios(FALSE)
       /\ result["Liquidity"] =
            IF fault = "liquidity" THEN EmptyMapping
            ELSE calculate_liquidity_ratios(FALSE)
       /\ result["Growth Rates"] = AnalyzeGrowthRates


(* ------------------------ claims: error handling ---------------------- *)

ResultKeys ==
    { "Growth Rates", "Profitability", "Liquidity" }

\* C11: whatever the two tables are (data frames or not) and whichever inner
\* step fails, a call of analyze completes by returning a mapping whose keys
\* are exactly 'Growth Rates', 'Profitability' and 'Liquidity'.
C11_AlwaysThreeKeys ==
    pc = "done" =>
        /\ DOMAIN result = ResultKeys
        /\ \A k \in ResultKeys : result[k] # Raise

\* a call on objects that are no data frames, whose trend step raised, has
\* completed
C11_Witness ==
    /\ pc = "done"
    /\ ~income_stmt.is_frame
    /\ fault = "late"
    /\ DOMAIN result = ResultKeys

(* ------------------------ claims: growth formula ---------------------- *)

\* the coerced entry at position i of the column the helper call resolved
HelperEntry(i) ==
    to_numeric(CellAt(HelperFrame, helper.col_name, i))

\* C12: when the resolved column has at least two periods whose entries at
\* positions 0 and 1 are numbers v0 and v1, _get_growth_rate returns
\* ((v0 - v1) / |v1|) * 100 if v1 is not zero, a value whose sign is the
\* sign of v0 - v1 also for a negative v1, and returns 0.0 if v1 is zero.
C12_GrowthFormula ==
    (/\ helper.op = "growth"
     /\ helper.col_name # NoColumn
     /\ HelperFrame.nrows >= 2
     /\ IsNum(HelperEntry(0))
     /\ IsNum(HelperEntry(1))) =>
        LET v0 == HelperEntry(0)
            v1 == HelperEntry(1)
            diff == v0.n * v1.d - v1.n * v0.d
        IN  IF v1.n # 0
            THEN /\ helper.value = Num(100 * diff, v0.d * Abs(v1.n))
                 /\ (helper.value.n > 0) = (diff > 0)
                 /\ (helper.value.n < 0) = (diff < 0)
            ELSE helper.value = Zero

\* the growth from -200 to 100 has been computed as +150 percent
C12_Witness ==
    /\ helper.op = "growth"
    /\ helper.col_name # NoColumn
    /\ HelperFrame.nrows >= 2
    /\ HelperEntry(0) = Num(100, 1)
    /\ HelperEntry(1) = Num(-200, 1)
    /\ helper.value = Num(150, 1)

(* ------------------------ claims: ratio formulas ---------------------- *)

NonzeroDenominators ==
    /\ Revenue0 # Zero
    /\ TotalAssets0 # Zero
    /\ TotalEquity0 # Zero
    /\ CurrentLiabilities0 # Zero

\* C13: when the latest revenue, total assets, total equity and current
\* liabilities are all nonzero, analyze returns Profit Margin = net income /
\* revenue * 100, Return On Assets = net income / total assets * 100,
\* Return On Equity = net income / total equity * 100, Current Ratio =
\* current assets / current liabilities and Debt To Equity = total
\* liabilities / total equity, each rounded to 2 decimals and computed from
\* the entries at position 0 (revenue and net income of the income statement,
\* the others of the balance sheet).
C13_RatioFormulas ==
    (Returned /\ NonzeroDenominators) =>
        /\ result["Profitability"] =
             ("Profit Margin" :> Percent2(NetIncome0, Revenue0))
             @@ ("Return On Assets" :> Percent2(NetIncome0, TotalAssets0))
             @@ ("Return On Equity" :> Percent2(NetIncome0, TotalEquity0))
        /\ result["Liquidity"] =
             ("Current Ratio" :> Plain2(CurrentAssets0, CurrentLiabilities0))
             @@ ("Debt To Equity" :> Plain2(TotalLiabilities0, TotalEquity0))

\* the ratios of a statement pair with nonzero denominators have been
\* returned: a margin of 23.9651 rounded to 23.97, a current ratio of 1.5
\* and a debt-to-equity ratio of 3
C13_Witness ==
    /\ Returned
    /\ NonzeroDenominators
    /\ income_stmt = RoundingIncome
    /\ result["Profitability"]["Profit Margin"] = Num(2397, 100)
    /\ result["Liquidity"]["Current Ratio"] = Num(3, 2)
    /\ result["Liquidity"]["Debt To Equity"] = Num(3, 1)

(* ------------------------ claims: absent columns ---------------------- *)

\* no column of the table the helper was called on is named by a variation
Unresolved(variations) ==
    \A i \in 1..Len(variations) : variations[i] \notin ColumnsOf(HelperFrame)

\* C14: when no column of the table resolves for the metric,
\* _get_latest_value returns exactly 0.0 and get_trend_data returns no entry
\* for the metric; neither reports the absence as an error.
C14_AbsenceSentinels ==
    /\ (helper.op = "latest" /\ Unresolved(LatestVariations(helper.metric))) =>
          helper.value = Zero
    /\ (helper.op = "trend" /\ Unresolved(TrendVariations(helper.metric))) =>
          DOMAIN helper.series = {}

\* get_trend_data has been called for a metric none of whose variations
\* names a column of a table that has columns and rows, and returned no entry
C14_Witness ==
    /\ helper.op = "trend"
    /\ HelperFrame.is_frame
    /\ HelperFrame.nrows >= 1
    /\ Len(HelperFrame.columns) >= 1
    /\ Unresolved(TrendVariations(helper.metric))
    /\ DOMAIN helper.series = {}

(* ------------------------ claims: extraction never raises ------------- *)

\* C15: _get_latest_value, _get_growth_rate and get_trend_data return to
\* their caller for every table object and metric name: no exception leaves
\* them, and on an object that is no data frame or has zero rows the value
\* is 0.0 and the series mapping has no entry.
C15_ExtractionNeverRaises ==
    helper.op # "none" =>
        /\ helper.value # Raise
        /\ helper.value.t \in { "num", "nan" }
        /\ (~HelperFrame.is_frame \/ HelperFrame.nrows = 0) =>
              /\ helper.value = Zero
              /\ DOMAIN helper.series = {}

\* _get_latest_value has returned 0.0 for a frame of zero rows that has the
\* column of the metric
C15_Witness ==
    /\ helper.op = "latest"
    /\ HelperFrame.is_frame
    /\ HelperFrame.nrows = 0
    /\ ~Unresolved(LatestVariations(helper.metric))
    /\ helper.value = Zero

(* ------------------------ claims: trend series ------------------------ *)

\* get_trend_data was called and returned a series for the metric
HasSeries ==
    /\ helper.op = "trend"
    /\ helper.metric \in DOMAIN helper.series

HelperSeries ==
    helper.series[helper.metric]

\* C16: the series get_trend_data returns for a metric is ordered ascending
\* by period (oldest first), whatever the row order of the table.
C16_SeriesAscending ==
    HasSeries =>
        \A i, j \in 1..Len(HelperSeries) :
            i < j => HelperSeries[i].period < HelperSeries[j].period

\* the positions of the resolved column whose entry coerces to a number
Parseable ==
    { i \in 1..HelperFrame.nrows : IsNum(HelperEntry(i - 1)) }

\* C17: the series get_trend_data returns for a metric holds numbers only:
\* entries of the column that fail numeric coercion are dropped, so the
\* series has no not-a-number entry and as many entries as the column has
\* parseable ones.
C17_SeriesOnlyNumbers ==
    HasSeries =>
        /\ \A i \in 1..Len(HelperSeries) : IsNum(HelperSeries[i].value)
        /\ Len(HelperSeries) = Cardinality(Parseable)

(* ------------------------ claims: coercion of the latest entry -------- *)

\* _get_latest_value was called on a table with rows and resolved a column
LatestRead ==
    /\ helper.op = "latest"
    /\ helper.col_name # NoColumn
    /\ HelperFrame.nrows >= 1

\* C18: _get_latest_value returns the entry at position 0 of the resolved
\* column as a number, and exactly 0.0 (not not-a-number, not an exception)
\* when that entry cannot be coerced, whatever the later positions hold.
C18_LatestAtZeroOrZero ==
    LatestRead =>
        helper.value = IF IsNum(HelperEntry(0)) THEN HelperEntry(0) ELSE Zero

\* the latest entry is no number while the previous one is 100, and 0.0 was
\* returned
C18_Witness ==
    /\ LatestRead
    /\ HelperFrame.nrows >= 2
    /\ IsNaN(HelperEntry(0))
    /\ HelperEntry(1) = Num(100, 1)
    /\ helper.value = Zero

KeptByStrip(ch) ==
    IsDigit(ch) \/ ch = "." \/ ch = "-"

\* a text without the characters that are no digit, '.' or '-'
Strip(s) ==
    SelectSeq(s, KeptByStrip)

\* C19: numeric coercion strips every character other than digits, '.' and
\* '-' from a text entry before parsing it: _get_latest_value returns the
\* number the stripped entry at position 0 parses to ('$1,000' and
\* '1 000 USD' give 1000.0), and 0.0 only if the stripped entry is still no
\* number.
C19_StripThenParse ==
    (LatestRead /\ CellAt(HelperFrame, helper.col_name, 0).k = "text") =>
        LET stripped == ParseText(Strip(CellAt(HelperFrame, helper.col_name, 0).s))
        IN  helper.value = IF IsNum(stripped) THEN stripped ELSE Zero

(* ------------------------ claims: synonym order ----------------------- *)

\* the synonyms of the helper call's metric that name a column of its table
PresentSynonyms ==
    Synonyms(helper.metric) \cap ColumnsOf(HelperFrame)

\* the present synonym that comes first in the metric's synonym list
FirstListed ==
    LET vs == LatestVariations(helper.metric)
        k == CHOOSE i \in 1..Len(vs) :
                 /\ vs[i] \in PresentSynonyms
                 /\ \A j \in 1..(i - 1) : vs[j] \notin PresentSynonyms
    IN  vs[k]

\* C20: when several columns of the table equal different synonyms of the
\* metric, _get_latest_value reads the column of the synonym that comes
\* first in the synonym list, in whatever order the table has its columns.
C20_SynonymOrderWins ==
    (/\ helper.op = "latest"
     /\ HelperFrame.nrows >= 1
     /\ Cardinality(PresentSynonyms) >= 2) =>
        helper.value = MarkAtZero(FirstListed)

\* the table has totalRevenue before revenue and the revenue column was read
C20_Witness ==
    /\ helper.op = "latest"
    /\ helper.metric = m_Revenue
    /\ HelperFrame.nrows >= 1
    /\ HelperFrame.columns = << c_totalRevenue, c_revenue >>
    /\ helper.value = MarkAtZero(c_revenue)

(* ------------------------ claims: finite results ---------------------- *)

\* the coerced entry at position pos of the column _get_growth_rate reads
\* for the key
GrowthEntry(key, pos) ==
    to_numeric(CellAt(GrowthFrame(key),
                      ResolveGrowth(GrowthFrame(key), GrowthMetric(key)), pos))

\* C21: every value in the result of analyze is a finite number; when the
\* entry at position 0 or 1 of a growth metric's column is not numeric, the
\* growth rate of the metric is 0.0.
C21_ResultsFinite ==
    Returned =>
        /\ \A c \in ResultKeys : \A k \in DOMAIN result[c] : IsNum(result[c][k])
        /\ \A key \in GrowthKeys :
             (/\ HasPrevious(key)
              /\ IsNaN(GrowthEntry(key, 0)) \/ IsNaN(GrowthEntry(key, 1)))
             => result["Growth Rates"][key] = Zero

(* ------------------------ claims: tables left alone ------------------- *)

\* C22: no step of analyze, calculate_growth_rates,
\* calculate_profitability_ratios, calculate_liquidity_ratios or
\* get_trend_data changes the income statement or the balance sheet the
\* analyzer holds: columns, rows, order and values stay what they were.
C22_TablesNeverModified ==
    [][income_stmt' = income_stmt /\ balance_sheet' = balance_sheet]_vars

\* after two analyze calls and a get_trend_data call over both statements
\* the two-period statements are still stored most recent first
C22_Witness ==
    /\ calls = 2
    /\ helper.op = "get_trend_data"
    /\ DOMAIN helper.series = { m_Revenue, m_TotalAssets }
    /\ income_stmt.index = RecentFirst(2)
    /\ balance_sheet.index = RecentFirst(2)

(* ------------------------ claims: reentrancy -------------------------- *)

\* the result analyze returns for the statements inc and bal when it runs
\* alone
AnalyzeAlone(inc, bal) ==
    LET revenue == LatestValue(inc, m_Revenue)
        net_income == LatestValue(inc, m_NetIncome)
        total_assets == LatestValue(bal, m_TotalAssets)
        total_equity == LatestValue(bal, m_TotalEquity)
        current_assets == LatestValue(bal, m_TotalCurrentAssets)
        current_liabilities == LatestValue(bal, m_TotalCurrentLiabilities)
        total_liabilities == LatestValue(bal, m_TotalLiabilities)
    IN  ("Growth Rates" :>
            (("Revenue Growth" :> GrowthRate(inc, m_Revenue))
             @@ ("Net Income Growth" :> GrowthRate(inc, m_NetIncome))
             @@ ("Asset Growth" :> GrowthRate(bal, m_TotalAssets))))
        @@ ("Profitability" :>
            (("Profit Margin" :> Round2(PercentRatio(net_income, revenue)))
             @@ ("Return On Assets" :> Round2(PercentRatio(net_income, total_assets)))
             @@ ("Return On Equity" :> Round2(PercentRatio(net_income, total_equity)))))
        @@ ("Liquidity" :>
            (("Current Ratio" :> Round2(PlainRatio(current_assets, current_liabilities)))
             @@ ("Debt To Equity" :> Round2(PlainRatio(total_liabilities, total_equity)))))

\* C23: of two analyses over different statements whose steps interleave,
\* each ends by returning the result analyze returns for its own statements
\* when run alone; no step depends on state the other analysis writes.
C23_Reentrant ==
    /\ pc \in { "done", "raised" } =>
          result = AnalyzeAlone(income_stmt, balance_sheet)
    /\ (other.id # 0 /\ other.pc \in { "done", "raised" }) =>
          other.result = AnalyzeAlone(other.income_stmt, other.balance_sheet)

(* ------------------------ claims: bounded retries --------------------- *)

\* the loop of the statement has ended
IncomeLoopOver ==
    load.pc \in { "balance", "process" }

BalanceLoopOver ==
    load.pc = "process"

\* the value fetched for a statement is a non-empty table
Fetched(v) ==
    v.kind # "None" /\ ~IsEmpty(v.T)

RetrySafety ==
    /\ load.income_attempts <= 3
    /\ load.balance_attempts <= 3
    /\ load.pc = "income" => ~Fetched(load.income_stmt)
    /\ load.pc = "balance" => ~Fetched(load.balance_sheet)
    /\ IncomeLoopOver =>
          IF Fetched(load.income_stmt) THEN load.income_attempts >= 1
          ELSE load.income_attempts = 3
    /\ BalanceLoopOver =>
          IF Fetched(load.balance_sheet) THEN load.balance_attempts >= 1
          ELSE load.balance_attempts = 3
    /\ load.pc \in { "coerce", "alpha", "returned" } =>
          /\ load.income_stmt.kind = "frame"
          /\ load.balance_sheet.kind = "frame"
    /\ load.pc = "alpha" =>
          /\ load.income_stmt = YF(EmptyFrame)
          /\ load.balance_sheet = YF(EmptyFrame)
          /\ load.income_attempts = 3
          /\ load.balance_attempts = 3

\* C24: in load_from_ticker each statement loop makes at most 3 attempts and
\* goes on only while no attempt has yielded a non-empty table; a loop that
\* ends without one has made exactly 3 attempts and the loader goes on with
\* an empty table for the statement; every call ends, returning or raising.
C24_BoundedRetry ==
    []RetrySafety /\ <>(load.pc \in { "returned", "raised" })

\* all three income attempts yielded nothing, the balance sheet arrived at
\* the second attempt, and the call returned an empty income statement
C24_Witness ==
    /\ load.pc = "returned"
    /\ load.income_attempts = 3
    /\ load.balance_attempts = 2
    /\ load.returned.income_statement = EmptyFrame
    /\ ~IsEmpty(load.returned.balance_sheet)

(* ------------------------ claims: uploaded CSV ------------------------ *)

\* C25: after an upload that load_from_csv loads, the metrics of the
\* result of process_csv are those of analyze on the two tables the loader
\* produced for the file, and the income_stmt and balance_sheet entries of
\* the result are those tables.
C25_CsvAnalysedFromLoaderTables ==
    page.upload = "processed" =>
        LET tables == load_from_csv(session.uploaded_file)
            data == session.financial_data
        IN  /\ data.metrics = analyze(tables.income_statement,
                                      tables.balance_sheet)
            /\ data.income_stmt = tables.income_statement
            /\ data.balance_sheet = tables.balance_sheet

(* ------------------------ claims: session state ----------------------- *)

\* analysis_done only with a result that has metrics and no error
DoneOnlyWithMetrics ==
    session.analysis_done =>
        /\ HasKey(session.financial_data, "metrics")
        /\ ~HasKey(session.financial_data, "error")

\* a run that reported a failed load leaves analysis_done False
FailedLoadNotDone ==
    page.error => ~session.analysis_done

\* C26: in every state of a UI session analysis_done is True only if
\* financial_data is a result with metrics and without error, a failed load
\* does not set analysis_done, and the input widgets are on the page
\* exactly when analysis_done is False.
C26_SessionInvariant ==
    /\ DoneOnlyWithMetrics
    /\ FailedLoadNotDone
    /\ ~page.pending => (page.inputs <=> ~session.analysis_done)

(* ------------------------ claims: scratch file ------------------------ *)

\* C27: once a run has handled an upload, by processing it, by getting a
\* result with an error, or by an exception while writing or processing,
\* the file temp_upload.csv does not exist.
C27_NoScratchFileLeft ==
    page.upload # "none" => ~temp_upload

\* writing the upload failed after the file was created, and the file is
\* gone
C27_Witness ==
    page.upload = "write raised" /\ ~temp_upload

(* ------------------------ claims: insights ---------------------------- *)

C29_ClearedStaysCleared ==
    [][(page.pending /\ page.clear) =>
          /\ session'.current_insight = ""
          /\ session'.last_question = ""
          /\ page'.llm_calls = 0
          /\ page'.insight_container = NoContent]_vars

\* C30: at the end of a run that showed the insights tab, an insight held
\* in current_insight has been written to the insight container in that
\* run.
C30_InsightStaysVisible ==
    (~page.pending /\ page.tabs /\ session.current_insight # "") =>
        page.insight_container.text = session.current_insight

=========================================================================
